---- MODULE Spec2Model ----
(***************************************************************************)
(* Lobby / transport synchronisation layer of urmom (src/lobby/*.rs).      *)
(*                                                                         *)
(* One hosting process (LobbyState None/Host) and a set of client          *)
(* processes (LobbyState None/Client) joined by the renet transport: a     *)
(* reliable-ordered channel and an unreliable channel per connection.      *)
(* Every bevy system of the lobby plugins is one action; the commands a    *)
(* system queues are applied, in order, at the end of the action.  A panic *)
(* (unwrap, panic!, todo!, an empty gen_range) ends the process: its flag  *)
(* is raised and nothing the system did in that frame leaves the process.  *)
(***************************************************************************)
EXTENDS Integers, Sequences, FiniteSets, TLC

\* ---------------------------------------------------------------- bounds
\* connection identifiers handed out in one run (new_renet_client draws a
\* fresh one from the wall clock on every entry into the Client role)
MaxIds == 2
\* map-change requests raised by the game besides the one of Host entry
MaxMapChanges == 1
\* reliable messages a peer sends to the client it is checked against
MaxPeerMsgs == 2
\* snapshots that can wait on the unreliable channel of one connection
MaxSnaps == 2
\* player numbers generate_player_color is applied to on its own
MaxPlayerNumber == 150
\* usable bytes of the netcode user-data buffer (NETCODE_USER_DATA_BYTES - 8)
MaxNameBytes == 3
\* unload signals after which the Single role is not entered once more (a
\* session that ends has sent one at least)
MaxSingleUnloads == 2

\* the client processes: two, each with a RenetClient of its own
Procs == {1, 2}
Ids == 1 .. MaxIds
\* the identities there are: one more than the sessions of a run use, for the
\* session of a client that comes back
ConnIds == 1 .. MaxIds + 1

\* ------------------------------------------------------------ data model
\* A value bound by a `let` of the source and used more than once is written
\* CHOOSE r \in {e(x) : x \in {value}} : TRUE, the member of a set of one, so
\* that it is computed once.

\* an engine resource is <<>> while absent and <<value>> while installed
NoRes == <<>>
NoEntity == 0

HostOrSingle == <<"HostOrSingle">>
Client(id) == <<"Client", id>>

InitConnection(id) == [type |-> "InitConnection", id |-> id]
ChangeMap == [type |-> "ChangeMap"]
PlayerConnected(pid, color, username) ==
    [type |-> "PlayerConnected", id |-> pid, color |-> color, username |-> username]
PlayerDisconnected(pid) == [type |-> "PlayerDisconnected", id |-> pid]
ProjectileSpawn(link, color) == [type |-> "ProjectileSpawn", id |-> link, color |-> color]
ActorDespawn(link) == [type |-> "ActorDespawn", id |-> link]

ClientConnected(id) == [type |-> "ClientConnected", client_id |-> id]
ClientDisconnected(id) == [type |-> "ClientDisconnected", client_id |-> id]

\* PlayerData::new: the entity is Some(entity)
PlayerData(entity, color, username) ==
    [entity |-> entity, color |-> color, username |-> username]
\* a username is the sequence of the bytes of its String
\* "noname"
NoName == <<110, 111, 110, 97, 109, 101>>
\* PlayerData::default: no entity, Color::RED, "noname"
Red == 0
DefaultPlayerData == [entity |-> NoEntity, color |-> Red, username |-> NoName]
\* Lobby::default
DefaultLobby == [me |-> DefaultPlayerData, players |-> <<>>, players_seq |-> 0]

\* a faulty HashMap::remove: the entry stays
MapRemoveKeeps(m, k) == m

\* HashMap::remove / HashMap::insert on a map kept as a function
MapRemove(m, k) == [x \in DOMAIN m \ {k} |-> m[x]]
MapInsert(m, k, v) == [x \in DOMAIN m \cup {k} |-> IF x = k THEN v ELSE m[x]]
\* HashMap::get, and the entry HashMap::remove returns: Some(value) or None
MapGet(m, k) == IF k \in DOMAIN m THEN <<m[k]>> ELSE NoRes

\* golden_angle = 137.5, in half degrees
GoldenAngle2 == 275

\* f32 arithmetic on non-negative values counted in a fixed unit (ones or
\* halves): a value is kept with 24 significant bits, rounded to the nearest
\* such value, ties to the even one
F32Bits == 16777216
RECURSIVE F32Ulp(_)
F32Ulp(x) == IF x < F32Bits THEN 1 ELSE 2 * F32Ulp(x \div 2)
F32(x) ==
    CHOOSE rounded \in
        { IF 2 * (x % u) < u \/ (2 * (x % u) = u /\ (x \div u) % 2 = 0)
              THEN (x \div u) * u
              ELSE ((x \div u) + 1) * u : u \in {F32Ulp(x)} } : TRUE

\* a faulty generate_player_color: the hue is not reduced modulo 360
generate_player_color_unreduced(player_number) == F32(GoldenAngle2 * F32(player_number))

\* hue of generate_player_color in half degrees:
\* (golden_angle * player_number as f32) % 360.0, the remainder being exact
generate_player_color(player_number) == F32(GoldenAngle2 * F32(player_number)) % 720

\* Color::hsl(hue, 1.0, 0.5), in halves; the lobby keeps a generated color
\* as its hue, the other two components being the same for every player
Hsl(hue2, saturation2, lightness2) ==
    [hue2 |-> hue2, saturation2 |-> saturation2, lightness2 |-> lightness2]
PlayerColor(player_number) == Hsl(generate_player_color(player_number), 2, 1)

\* the spawn points a loaded level configures, and those of another level
LevelPoints == {1}
OtherLevelPoints == {1, 2}
Levels == {LevelPoints, OtherLevelPoints}

\* the username a client process is configured with
\* the username a client process is configured with: "A" for the first, a
\* name of one byte more than the user data can hold for every other
ConfiguredUsername(p) == IF p = 1 THEN <<65>> ELSE [i \in 1 .. MaxNameBytes + 1 |-> 65]
\* the username the hosting process is configured with: "host"
HostUsername == <<104, 111, 115, 116>>
\* "@corapted@"
Corrupted == <<64, 99, 111, 114, 97, 112, 116, 101, 100, 64>>

\* ------------------------------------------------------- username codec
\* width of the length prefix: a u64, little endian
PrefixBytes == 8
NETCODE_USER_DATA_BYTES == MaxNameBytes + PrefixBytes

Ok(value) == [kind |-> "Ok", value |-> value]
Err == [kind |-> "Err", value |-> <<>>]
\* a slice out of range, a copy between slices of different lengths
Panic == [kind |-> "panic", value |-> <<>>]

Zeros(n) == [i \in 1 .. n |-> 0]

\* u64::to_le_bytes, on k bytes
RECURSIVE ToLeBytes(_, _)
ToLeBytes(n, k) == IF k = 0 THEN <<>> ELSE <<n % 256>> \o ToLeBytes(n \div 256, k - 1)

\* u64::from_le_bytes(bytes) as usize (a usize of 64 bits) followed by
\* .min(cap): the least of the two, computed without the full value
RECURSIVE FromLeBytesMin(_, _)
FromLeBytesMin(bytes, cap) ==
    IF bytes = <<>> THEN 0
    ELSE CHOOSE least \in
             { IF value < cap THEN value ELSE cap :
                   value \in {Head(bytes) + 256 * FromLeBytesMin(Tail(bytes), cap)} } : TRUE

\* String::from_utf8: the bytes are well-formed UTF-8
IsContinuation(b) == b >= 128 /\ b <= 191
RECURSIVE ValidUtf8(_)
ValidUtf8(bytes) ==
    IF bytes = <<>> THEN TRUE
    ELSE LET b == bytes[1]
             n == Len(bytes)
             rest(k) == SubSeq(bytes, k + 1, n)
         IN  CASE b <= 127 -> ValidUtf8(rest(1))
               [] b >= 194 /\ b <= 223 ->
                    n >= 2 /\ IsContinuation(bytes[2]) /\ ValidUtf8(rest(2))
               [] b >= 224 /\ b <= 239 ->
                    /\ n >= 3 /\ IsContinuation(bytes[2]) /\ IsContinuation(bytes[3])
                    /\ b = 224 => bytes[2] >= 160
                    /\ b = 237 => bytes[2] <= 159
                    /\ ValidUtf8(rest(3))
               [] b >= 240 /\ b <= 244 ->
                    /\ n >= 4 /\ IsContinuation(bytes[2]) /\ IsContinuation(bytes[3])
                    /\ IsContinuation(bytes[4])
                    /\ b = 240 => bytes[2] >= 144
                    /\ b = 244 => bytes[2] <= 143
                    /\ ValidUtf8(rest(4))
               [] OTHER -> FALSE

\* a faulty Username::to_netcode_data: a name that fills the buffer is refused
to_netcode_data_refuses_full(name) ==
    IF Len(name) >= NETCODE_USER_DATA_BYTES - PrefixBytes
    THEN Err
    ELSE Ok(ToLeBytes(Len(name), PrefixBytes) \o name
              \o Zeros(NETCODE_USER_DATA_BYTES - PrefixBytes - Len(name)))

\* Username::to_netcode_data: a name is the sequence of its bytes
to_netcode_data(name) ==
    IF Len(name) > NETCODE_USER_DATA_BYTES - PrefixBytes
    THEN Err
    ELSE Ok(ToLeBytes(Len(name), PrefixBytes) \o name
              \o Zeros(NETCODE_USER_DATA_BYTES - PrefixBytes - Len(name)))

\* a faulty Username::from_user_data: the length is not clamped (the length
\* is then at most the low byte of the prefix, or beyond every buffer)
from_user_data_unclamped(user_data) ==
    LET len == FromLeBytesMin(SubSeq(user_data, 1, PrefixBytes), 256)
        data == SubSeq(user_data, PrefixBytes + 1, len + PrefixBytes)
    IN  IF len + PrefixBytes > Len(user_data) THEN Panic
        ELSE IF ValidUtf8(data) THEN Ok(data) ELSE Err

\* Username::from_user_data
from_user_data(user_data) ==
    CHOOSE result \in
        { LET data == SubSeq(user_data, PrefixBytes + 1, len + PrefixBytes)
          IN  IF len + PrefixBytes > Len(user_data) THEN Panic
              ELSE IF ValidUtf8(data) THEN Ok(data) ELSE Err :
              len \in {FromLeBytesMin(SubSeq(user_data, 1, PrefixBytes),
                                      NETCODE_USER_DATA_BYTES - PrefixBytes)} } : TRUE

VARIABLES
    \* hosting process
    lobbyState,        \* LobbyState: "None" | "Host"
    mapLoader,         \* MapLoaderState: "No" | "Yes"
    spawnPoint,        \* SpawnProperty: the set of spawn points
    lobby,             \* Lobby resource
    hostTDR,           \* TransportDataResource is installed
    serverInstalled,   \* RenetServer and NetcodeServerTransport are installed
    connections,       \* RenetServer::connections
    serverEvents,      \* queued ServerEvent
    userData,          \* per connection: user data its client authenticates with
    changeMapEvents,   \* unread ChangeMapLobbyEvent
    mapRequests,       \* map-change requests raised so far by the game
    hostUnload,        \* UnloadActorsEvent sent by the hosting process
    hWorld,            \* entities of the hosting process
    hNextEntity,       \* next entity the hosting process allocates
    hostPanic,         \* the hosting process panicked
    hostLog,           \* history: every server event handled, with its sends
    \* transport
    chan,              \* per connection: reliable messages sent to it, in order
    unreliable,        \* per connection: snapshots arrived and not yet read
    \* client processes
    clientState,       \* LobbyState: "None" | "Client"
    connId,            \* connection identifier of the process's RenetClient
    nextId,            \* next connection identifier (wall clock)
    clientLink,        \* per connection, its client end: "idle" | "up" | "down"
    rcvd,              \* per connection: reliable messages read by its client
    ownId,             \* OwnId resource: 0 is None
    cLobby,            \* Lobby resource
    cTDR,              \* TransportDataResource: the last snapshot read
    cWorld,            \* entities of the client process
    cNextEntity,       \* next entity the client process allocates
    cUnload,           \* UnloadActorsEvent sent by the client process
    clientPanic,       \* the client process panicked
    \* a function of the program applied on its own
    call,              \* its name, its input and, once applied, its result
    \* game flow of the process that hosts or plays alone
    coreState          \* CoreGameState: "LoadLobby" | "InGame" | "Other"

hostVars == <<lobbyState, mapLoader, spawnPoint, lobby, hostTDR, serverInstalled,
              connections, serverEvents, userData, changeMapEvents, mapRequests,
              hostUnload, hWorld, hNextEntity, hostPanic, hostLog>>
netVars == <<chan, unreliable>>
clientVars == <<clientState, connId, nextId, clientLink, rcvd, ownId, cLobby, cTDR,
                cWorld, cNextEntity, cUnload, clientPanic>>
vars == <<hostVars, netVars, clientVars, call, coreState>>


\* ------------------------------------------------------------ transport
\* RenetServer::send_message: queued on the connection of client_id; a client
\* that is not (or no longer) connected gets nothing
SendMessage(out, client_id, message) ==
    IF client_id \in connections
    THEN [out EXCEPT ![client_id] = Append(@, message)]
    ELSE out

\* RenetServer::broadcast_message: queued on every connection the server holds,
\* whether or not its ClientConnected event was read yet
BroadcastMessage(out, message) ==
    [c \in DOMAIN out |-> IF c \in connections THEN Append(out[c], message) ELSE out[c]]

Unicast(to, message) == [kind |-> "unicast", to |-> to, msg |-> message]
Broadcast(message) == [kind |-> "broadcast", to |-> connections, msg |-> message]

ApplySend(out, send) ==
    IF send.kind = "unicast"
    THEN SendMessage(out, send.to, send.msg)
    ELSE BroadcastMessage(out, send.msg)

RECURSIVE ApplySends(_, _)
ApplySends(out, sends) ==
    IF sends = <<>> THEN out
    ELSE CHOOSE done \in
             {ApplySends(sent, Tail(sends)) : sent \in {ApplySend(out, Head(sends))}} : TRUE

\* Username::from_user_data as the host uses it: the name, or the sentinel
\* when the user data does not decode
\* a faulty match on Username::from_user_data: an empty name on a failure
UsernameOfOrEmpty(data) ==
    LET name == from_user_data(data)
    IN  IF name.kind = "Ok" THEN name.value ELSE <<>>

UsernameOf(data) ==
    LET name == from_user_data(data)
    IN  IF name.kind = "Ok" THEN name.value ELSE Corrupted

\* NetcodeServerTransport::user_data of a connected client: the user data of
\* its connect token, zeros when the client gave none
TokenUserData(user_data) ==
    IF user_data = NoRes THEN Zeros(NETCODE_USER_DATA_BYTES) ELSE user_data[1]

\* the iteration orders a HashMap keyed by PlayerId can have
Orders(n) == {o \in [1 .. n -> 1 .. n] : \A i, j \in 1 .. n : o[i] = o[j] => i = j}

\* for (player_id, player_data) in &lobby.players, in the order ord
PlayersInOrder(players, ord) ==
    SelectSeq([i \in DOMAIN ord |-> Client(ord[i])], LAMBDA k : k \in DOMAIN players)

\* ------------------------------------------------------- hosting process
\* a character as spawn_character leaves it; its Respawn component is kept as
\* load_processing writes it: the reason Forced inserted, and the spawn points
\* put in place of its own (none yet)
Character(pid, me) ==
    [kind |-> "Character", id |-> pid, me |-> me, forced |-> FALSE, points |-> NoRes]
TiedCamera(target) == [kind |-> "TiedCamera", target |-> target]

Characters(world) == {e \in DOMAIN world : world[e].kind = "Character"}
TiedCameras(world) == {e \in DOMAIN world : world[e].kind = "TiedCamera"}
MeEntities(world) == {e \in Characters(world) : world[e].me}
Despawn(world, es) == [e \in DOMAIN world \ es |-> world[e]]

\* the state server_update_system threads through its event loop
HostFrame ==
    [players |-> lobby[1].players, players_seq |-> lobby[1].players_seq, world |-> hWorld,
     next |-> hNextEntity, out |-> chan, log |-> hostLog, panic |-> FALSE]

LogEntry(st, ev, sends, players, panic) ==
    [ev |-> ev, before |-> st.players, conns |-> connections, sends |-> sends,
     after |-> players, panic |-> panic]

Panicked(st, ev, sends) ==
    [st EXCEPT !.panic = TRUE, !.log = Append(@, LogEntry(st, ev, sends, st.players, TRUE))]

\* ServerEvent::ClientConnected
HandleClientConnected(st, client_id, ord) ==
    LET ev == ClientConnected(client_id)
        init == <<Unicast(client_id, InitConnection(client_id))>>
        seq == st.players_seq + 1
        color == generate_player_color(seq)
        player_entity == st.next
        keys == PlayersInOrder(st.players, ord)
        boot == [i \in 1 .. Len(keys) |->
                    Unicast(client_id, PlayerConnected(keys[i], st.players[keys[i]].color,
                                                       st.players[keys[i]].username))]
        username == UsernameOf(TokenUserData(userData[client_id]))
        players == MapInsert(st.players, Client(client_id),
                             PlayerData(player_entity, color, username))
        sends == init \o boot
                   \o <<Broadcast(PlayerConnected(Client(client_id), color, username))>>
    IN  IF spawnPoint = {}
        THEN \* random_point: gen_range over an empty range panics
             Panicked(st, ev, init)
        ELSE IF client_id \notin connections
        THEN \* transport.user_data(..).unwrap() of a client that is gone
             Panicked(st, ev, init \o boot)
        ELSE [st EXCEPT !.players = players,
                        !.players_seq = seq,
                        !.world = (player_entity :> Character(Client(client_id), FALSE)) @@ @,
                        !.next = player_entity + 1,
                        !.out = ApplySends(@, sends),
                        !.log = Append(@, LogEntry(st, ev, sends, players, FALSE))]

\* a faulty ClientDisconnected arm: the broadcast without lobby.players.remove
HandleClientDisconnectedKeepsEntry(st, client_id) ==
    LET ev == ClientDisconnected(client_id)
        sends == <<Broadcast(PlayerDisconnected(Client(client_id)))>>
    IN  [st EXCEPT !.out = ApplySends(@, sends),
                   !.log = Append(@, LogEntry(st, ev, sends, st.players, FALSE))]

\* ServerEvent::ClientDisconnected
HandleClientDisconnected(st, client_id) ==
    LET ev == ClientDisconnected(client_id)
        pid == Client(client_id)
        present == pid \in DOMAIN st.players
        players == IF present THEN MapRemove(st.players, pid) ELSE st.players
        sends == <<Broadcast(PlayerDisconnected(pid))>>
    IN  [st EXCEPT !.players = players,
                   !.world = IF present THEN Despawn(@, {st.players[pid].entity}) ELSE @,
                   !.out = ApplySends(@, sends),
                   !.log = Append(@, LogEntry(st, ev, sends, players, FALSE))]

HandleServerEvent(st, ev, ord) ==
    IF ev.type = "ClientConnected"
    THEN HandleClientConnected(st, ev.client_id, ord)
    ELSE HandleClientDisconnected(st, ev.client_id)

\* for event in server_events.read(): every event on the state the one
\* before it left
RECURSIVE HandleServerEvents(_, _, _)
HandleServerEvents(st, evs, ord) ==
    IF evs = <<>> \/ st.panic THEN st
    ELSE CHOOSE done \in
             { HandleServerEvents(next, Tail(evs), ord) :
                   next \in {HandleServerEvent(st, Head(evs), ord)} } : TRUE

HostRunning == lobbyState = "Host" /\ ~hostPanic

\* OnEnter(LobbyState::Host): setup, with new_renet_server
HostSetup ==
    /\ lobbyState = "None" /\ ~hostPanic
    /\ IF serverInstalled
       THEN \* the socket of the earlier session is still bound: bind(..).unwrap()
            /\ hostPanic' = TRUE
            /\ UNCHANGED <<lobbyState, lobby, hostTDR, serverInstalled, connections,
                           serverEvents, changeMapEvents>>
       ELSE /\ lobbyState' = "Host"
            /\ hostTDR' = TRUE
            /\ lobby' = <<DefaultLobby>>
            /\ serverInstalled' = TRUE
            /\ connections' = {}
            /\ serverEvents' = <<>>
            /\ changeMapEvents' = changeMapEvents + 1
            /\ UNCHANGED hostPanic
    /\ UNCHANGED <<mapLoader, spawnPoint, userData, mapRequests, hostUnload, hWorld,
                   hNextEntity, hostLog>>
    /\ UNCHANGED <<netVars, clientVars>>
    /\ UNCHANGED <<call, coreState>>

\* a faulty teardown: the loop over char_query is missing
HostTeardownKeepsCharacters ==
    /\ HostRunning
    /\ serverEvents = <<>> /\ changeMapEvents = 0
    /\ lobbyState' = "None"
    /\ hWorld' = Despawn(hWorld, TiedCameras(hWorld))
    /\ lobby' = NoRes
    /\ hostTDR' = FALSE
    /\ hostUnload' = hostUnload + 1
    /\ UNCHANGED <<mapLoader, spawnPoint, serverInstalled, connections, serverEvents,
                   userData, changeMapEvents, mapRequests, hNextEntity, hostPanic, hostLog>>
    /\ UNCHANGED <<netVars, clientVars>>
    /\ UNCHANGED <<call, coreState>>

\* OnExit(LobbyState::Host): teardown.  The role is left between two frames,
\* when every event of the last frame has been read.
HostTeardown ==
    /\ HostRunning
    /\ serverEvents = <<>> /\ changeMapEvents = 0
    /\ lobbyState' = "None"
    /\ hWorld' = Despawn(hWorld, TiedCameras(hWorld) \cup Characters(hWorld))
    /\ lobby' = NoRes
    /\ hostTDR' = FALSE
    /\ hostUnload' = hostUnload + 1
    /\ UNCHANGED <<mapLoader, spawnPoint, serverInstalled, connections, serverEvents,
                   userData, changeMapEvents, mapRequests, hNextEntity, hostPanic, hostLog>>
    /\ UNCHANGED <<netVars, clientVars>>
    /\ UNCHANGED <<call, coreState>>

\* a faulty load_processing: the host's player is spawned without
\* lobby_res.players_seq += 1
HostLoadProcessingKeepsSeq ==
    /\ HostRunning /\ mapLoader = "No"
    /\ spawnPoint # {}
    /\ LET spawn == Cardinality(MeEntities(hWorld)) # 1
           color == generate_player_color(lobby[1].players_seq)
           player_entity == hNextEntity
           marked == [e \in DOMAIN hWorld |->
                        IF hWorld[e].kind = "Character"
                        THEN [hWorld[e] EXCEPT !.forced = TRUE, !.points = <<spawnPoint>>]
                        ELSE hWorld[e]]
       IN  IF spawn
           THEN /\ lobby' = <<[lobby[1] EXCEPT !.me = PlayerData(player_entity, color, HostUsername)]>>
                /\ hWorld' = (player_entity :> Character(HostOrSingle, TRUE))
                                @@ ((player_entity + 1) :> TiedCamera(player_entity))
                                @@ marked
                /\ hNextEntity' = hNextEntity + 2
           ELSE /\ hWorld' = marked
                /\ UNCHANGED <<lobby, hNextEntity>>
    /\ mapLoader' = "Yes"
    /\ UNCHANGED <<lobbyState, spawnPoint, hostTDR, serverInstalled, connections,
                   serverEvents, userData, changeMapEvents, mapRequests, hostUnload,
                   hostPanic, hostLog>>
    /\ UNCHANGED <<netVars, clientVars>>
    /\ UNCHANGED <<call, coreState>>

\* a faulty load_processing: the host's player is spawned whether or not a
\* locally controlled actor exists
HostLoadProcessingAlwaysSpawns ==
    /\ HostRunning /\ mapLoader = "No"
    /\ spawnPoint # {}
    /\ LET seq == lobby[1].players_seq + 1
           color == generate_player_color(seq)
           player_entity == hNextEntity
           marked == [e \in DOMAIN hWorld |->
                        IF hWorld[e].kind = "Character"
                        THEN [hWorld[e] EXCEPT !.forced = TRUE, !.points = <<spawnPoint>>]
                        ELSE hWorld[e]]
       IN  /\ lobby' = <<[lobby[1] EXCEPT !.players_seq = seq,
                           !.me = PlayerData(player_entity, color, HostUsername)]>>
           /\ hWorld' = (player_entity :> Character(HostOrSingle, TRUE))
                           @@ ((player_entity + 1) :> TiedCamera(player_entity))
                           @@ marked
           /\ hNextEntity' = hNextEntity + 2
    /\ mapLoader' = "Yes"
    /\ UNCHANGED <<lobbyState, spawnPoint, hostTDR, serverInstalled, connections,
                   serverEvents, userData, changeMapEvents, mapRequests, hostUnload,
                   hostPanic, hostLog>>
    /\ UNCHANGED <<netVars, clientVars>>
    /\ UNCHANGED <<call, coreState>>

\* a faulty load_processing: the host's player is entered in the players map
\* as well
HostLoadProcessingRegistersMe ==
    /\ HostRunning /\ mapLoader = "No"
    /\ spawnPoint # {}
    /\ LET spawn == Cardinality(MeEntities(hWorld)) # 1
           seq == lobby[1].players_seq + 1
           color == generate_player_color(seq)
           player_entity == hNextEntity
           marked == [e \in DOMAIN hWorld |->
                        IF hWorld[e].kind = "Character"
                        THEN [hWorld[e] EXCEPT !.forced = TRUE, !.points = <<spawnPoint>>]
                        ELSE hWorld[e]]
       IN  IF spawn
           THEN /\ lobby' = <<[lobby[1] EXCEPT !.players_seq = seq,
                                !.me = PlayerData(player_entity, color, HostUsername),
                                !.players = MapInsert(@, HostOrSingle,
                                    PlayerData(player_entity, color, HostUsername))]>>
                /\ hWorld' = (player_entity :> Character(HostOrSingle, TRUE))
                                @@ ((player_entity + 1) :> TiedCamera(player_entity))
                                @@ marked
                /\ hNextEntity' = hNextEntity + 2
           ELSE /\ hWorld' = marked
                /\ UNCHANGED <<lobby, hNextEntity>>
    /\ mapLoader' = "Yes"
    /\ UNCHANGED <<lobbyState, spawnPoint, hostTDR, serverInstalled, connections,
                   serverEvents, userData, changeMapEvents, mapRequests, hostUnload,
                   hostPanic, hostLog>>
    /\ UNCHANGED <<netVars, clientVars>>
    /\ UNCHANGED <<call, coreState>>

\* load_processing of the Host role (runs while MapLoaderState is No)
HostLoadProcessing ==
    /\ HostRunning /\ mapLoader = "No"
    /\ spawnPoint # {}
    /\ LET spawn == Cardinality(MeEntities(hWorld)) # 1
           seq == lobby[1].players_seq + 1
           color == generate_player_color(seq)
           player_entity == hNextEntity
           marked == [e \in DOMAIN hWorld |->
                        IF hWorld[e].kind = "Character"
                        THEN [hWorld[e] EXCEPT !.forced = TRUE, !.points = <<spawnPoint>>]
                        ELSE hWorld[e]]
       IN  IF spawn
           THEN /\ lobby' = <<[lobby[1] EXCEPT !.players_seq = seq,
                                !.me = PlayerData(player_entity, color, HostUsername)]>>
                /\ hWorld' = (player_entity :> Character(HostOrSingle, TRUE))
                                @@ ((player_entity + 1) :> TiedCamera(player_entity))
                                @@ marked
                /\ hNextEntity' = hNextEntity + 2
           ELSE /\ hWorld' = marked
                /\ UNCHANGED <<lobby, hNextEntity>>
    /\ mapLoader' = "Yes"
    /\ UNCHANGED <<lobbyState, spawnPoint, hostTDR, serverInstalled, connections,
                   serverEvents, userData, changeMapEvents, mapRequests, hostUnload,
                   hostPanic, hostLog>>
    /\ UNCHANGED <<netVars, clientVars>>
    /\ UNCHANGED <<call, coreState>>

RECURSIVE Repeat(_, _)
Repeat(x, n) == IF n = 0 THEN <<>> ELSE <<x>> \o Repeat(x, n - 1)

\* a faulty send_change_map: one ChangeMap broadcast and one unload signal
\* for all the requests it reads
HostSendChangeMapOnce ==
    /\ HostRunning /\ changeMapEvents > 0
    /\ chan' = ApplySends(chan, <<Broadcast(ChangeMap)>>)
    /\ hostUnload' = hostUnload + 1
    /\ changeMapEvents' = 0
    /\ UNCHANGED <<lobbyState, mapLoader, spawnPoint, lobby, hostTDR, serverInstalled,
                   connections, serverEvents, userData, mapRequests, hWorld, hNextEntity,
                   hostPanic, hostLog>>
    /\ UNCHANGED <<unreliable, clientVars>>
    /\ UNCHANGED <<call, coreState>>

\* send_change_map: one ChangeMap broadcast and one unload signal per request
HostSendChangeMap ==
    /\ HostRunning /\ changeMapEvents > 0
    /\ chan' = ApplySends(chan, Repeat(Broadcast(ChangeMap), changeMapEvents))
    /\ hostUnload' = hostUnload + changeMapEvents
    /\ changeMapEvents' = 0
    /\ UNCHANGED <<lobbyState, mapLoader, spawnPoint, lobby, hostTDR, serverInstalled,
                   connections, serverEvents, userData, mapRequests, hWorld, hNextEntity,
                   hostPanic, hostLog>>
    /\ UNCHANGED <<unreliable, clientVars>>
    /\ UNCHANGED <<call, coreState>>

\* server_update_system: every queued ServerEvent, in order.  The second loop
\* (receive_message of every client) reads and drops what clients sent.
HostServerUpdate ==
    /\ HostRunning /\ serverEvents # <<>>
    /\ \E ord \in Orders(nextId - 1) :
         LET st == HandleServerEvents(HostFrame, serverEvents, ord)
         IN  IF st.panic
             THEN /\ hostPanic' = TRUE
                  /\ hostLog' = st.log
                  /\ UNCHANGED <<lobby, hWorld, hNextEntity, chan, serverEvents>>
             ELSE /\ lobby' = <<[lobby[1] EXCEPT !.players = st.players,
                                                !.players_seq = st.players_seq]>>
                  /\ hWorld' = st.world
                  /\ hNextEntity' = st.next
                  /\ chan' = st.out
                  /\ hostLog' = st.log
                  /\ serverEvents' = <<>>
                  /\ UNCHANGED hostPanic
    /\ UNCHANGED <<lobbyState, mapLoader, spawnPoint, hostTDR, serverInstalled, connections,
                   userData, changeMapEvents, mapRequests, hostUnload>>
    /\ UNCHANGED <<unreliable, clientVars>>
    /\ UNCHANGED <<call, coreState>>

\* the game raises a ChangeMapLobbyEvent
RequestChangeMap ==
    /\ HostRunning /\ mapRequests < MaxMapChanges
    /\ mapRequests' = mapRequests + 1
    /\ changeMapEvents' = changeMapEvents + 1
    /\ UNCHANGED <<lobbyState, mapLoader, spawnPoint, lobby, hostTDR, serverInstalled,
                   connections, serverEvents, userData, hostUnload, hWorld, hNextEntity,
                   hostPanic, hostLog>>
    /\ UNCHANGED <<netVars, clientVars>>
    /\ UNCHANGED <<call, coreState>>

\* the level loader fills SpawnProperty once the level is loaded
LevelLoadedWith(points) ==
    /\ ~hostPanic /\ spawnPoint = {}
    /\ spawnPoint' = points
    /\ UNCHANGED <<lobbyState, mapLoader, lobby, hostTDR, serverInstalled, connections,
                   serverEvents, userData, changeMapEvents, mapRequests, hostUnload, hWorld,
                   hNextEntity, hostPanic, hostLog>>
    /\ UNCHANGED <<netVars, clientVars>>
    /\ UNCHANGED <<call, coreState>>

LevelLoaded == LevelLoadedWith(LevelPoints)

\* the level loader drops the level: no spawn points, load barrier back to No
LevelUnloaded ==
    /\ ~hostPanic /\ spawnPoint # {}
    /\ spawnPoint' = {}
    /\ mapLoader' = "No"
    /\ UNCHANGED <<lobbyState, lobby, hostTDR, serverInstalled, connections,
                   serverEvents, userData, changeMapEvents, mapRequests, hostUnload, hWorld,
                   hNextEntity, hostPanic, hostLog>>
    /\ UNCHANGED <<netVars, clientVars>>
    /\ UNCHANGED <<call, coreState>>


\* ------------------------------------------------------------ transport
\* the transport accepts the connection of a client: RenetServer::add_connection
\* holds it from now on and queues ClientConnected (read only in the Host role)
TransportConnect(id) ==
    /\ serverInstalled /\ ~hostPanic
    /\ \E p \in Procs : connId[p] = id /\ ~clientPanic[p]
    /\ clientLink[id] = "idle"
    /\ connections' = connections \cup {id}
    /\ clientLink' = [clientLink EXCEPT ![id] = "up"]
    /\ serverEvents' = IF lobbyState = "Host"
                       THEN Append(serverEvents, ClientConnected(id)) ELSE serverEvents
    /\ UNCHANGED <<lobbyState, mapLoader, spawnPoint, lobby, hostTDR, serverInstalled,
                   userData, changeMapEvents, mapRequests, hostUnload, hWorld, hNextEntity,
                   hostPanic, hostLog>>
    /\ UNCHANGED <<netVars, clientState, connId, nextId, rcvd, ownId, cLobby, cTDR, cWorld,
                   cNextEntity, cUnload, clientPanic>>
    /\ UNCHANGED <<call, coreState>>

\* the transport drops a connection (the client left, or timed out):
\* RenetServer::remove_connection queues ClientDisconnected
TransportDisconnect(id) ==
    /\ serverInstalled /\ ~hostPanic
    /\ id \in connections
    /\ connections' = connections \ {id}
    /\ clientLink' = [clientLink EXCEPT ![id] = "down"]
    /\ serverEvents' = IF lobbyState = "Host"
                       THEN Append(serverEvents, ClientDisconnected(id)) ELSE serverEvents
    /\ UNCHANGED <<lobbyState, mapLoader, spawnPoint, lobby, hostTDR, serverInstalled,
                   userData, changeMapEvents, mapRequests, hostUnload, hWorld, hNextEntity,
                   hostPanic, hostLog>>
    /\ UNCHANGED <<netVars, clientState, connId, nextId, rcvd, ownId, cLobby, cTDR, cWorld,
                   cNextEntity, cUnload, clientPanic>>
    /\ UNCHANGED <<call, coreState>>

\* -------------------------------------------------------- client process
Origin == [translation |-> 0, rotation |-> 0]
DefaultView == 0
DefaultTransportData == [players |-> <<>>, actors |-> <<>>]

\* spawn_character_shell(player_id, color, Vec3::ZERO)
Shell(pid, me) ==
    [kind |-> "Character", id |-> pid, me |-> me, transform |-> Origin, view |-> DefaultView]
Linked(link) == [kind |-> "Linked", link |-> link, transform |-> Origin]

\* Commands::init_resource: the default value, unless the resource exists
InitResource(res, default) == IF res = NoRes THEN <<default>> ELSE res

\* the state client_sync_players threads through its two loops
ClientFrame(p) ==
    [own |-> ownId[p][1], players |-> cLobby[p][1].players, world |-> cWorld[p],
     next |-> cNextEntity[p], unload |-> cUnload[p], data |-> cTDR[p][1], panic |-> FALSE]

OnInitConnection(st, m) ==
    IF st.own # 0
    THEN [st EXCEPT !.panic = TRUE]
    ELSE [st EXCEPT !.own = m.id]

OnChangeMap(st, m) == [st EXCEPT !.unload = @ + 1]

\* a faulty PlayerConnected arm: every shell is tagged Me and given a camera
OnPlayerConnectedAllMine(st, m) ==
    LET player_entity == st.next
        spawned == (player_entity :> Shell(m.id, TRUE))
                     @@ ((player_entity + 1) :> TiedCamera(player_entity))
    IN  [st EXCEPT !.world = spawned @@ @,
                   !.next = @ + 2,
                   !.players = MapInsert(@, m.id, PlayerData(player_entity, m.color, m.username))]

\* ServerMessages::PlayerConnected
OnPlayerConnected(st, m) ==
    LET player_entity == st.next
        mine == m.id # HostOrSingle /\ m.id = Client(st.own)
        spawned == IF mine
                   THEN (player_entity :> Shell(m.id, TRUE))
                          @@ ((player_entity + 1) :> TiedCamera(player_entity))
                   ELSE (player_entity :> Shell(m.id, FALSE))
    IN  [st EXCEPT !.world = spawned @@ @,
                   !.next = IF mine THEN @ + 2 ELSE @ + 1,
                   !.players = MapInsert(@, m.id, PlayerData(player_entity, m.color, m.username))]

\* a faulty PlayerDisconnected arm: the entry is removed, its entity is kept
OnPlayerDisconnectedNoDespawn(st, m) ==
    IF m.id \in DOMAIN st.players
    THEN [st EXCEPT !.players = MapRemove(@, m.id)]
    ELSE st

OnPlayerDisconnected(st, m) ==
    IF m.id \in DOMAIN st.players
    THEN [st EXCEPT !.players = MapRemove(@, m.id),
                    !.world = Despawn(@, {st.players[m.id].entity})]
    ELSE st

OnActorDespawn(st, m) ==
    [st EXCEPT !.world = Despawn(@, {e \in DOMAIN st.world :
                                       st.world[e].kind = "Linked" /\ st.world[e].link = m.id})]

\* ProjectileSpawn => todo!()
OnProjectileSpawn(st, m) == [st EXCEPT !.panic = TRUE]

OnServerMessage(st, m) ==
    CASE m.type = "InitConnection" -> OnInitConnection(st, m)
      [] m.type = "ChangeMap" -> OnChangeMap(st, m)
      [] m.type = "PlayerConnected" -> OnPlayerConnected(st, m)
      [] m.type = "PlayerDisconnected" -> OnPlayerDisconnected(st, m)
      [] m.type = "ActorDespawn" -> OnActorDespawn(st, m)
      [] m.type = "ProjectileSpawn" -> OnProjectileSpawn(st, m)

\* while let Some(message) = client.receive_message(ReliableOrdered)
RECURSIVE DrainReliable(_, _)
DrainReliable(st, msgs) ==
    IF msgs = <<>> \/ st.panic THEN st
    ELSE DrainReliable(OnServerMessage(st, Head(msgs)), Tail(msgs))

TransformOf(data) == [translation |-> data.position, rotation |-> data.rotation]

\* a faulty unreliable loop: lobby.players.get(player_id).unwrap()
ApplySnapshotUnwrap(st, snap) ==
    LET named(e) == {pid \in DOMAIN snap.players : st.players[pid].entity = e}
        update(e) ==
            IF named(e) # {}
            THEN LET data == snap.players[CHOOSE pid \in named(e) : TRUE]
                 IN  [st.world[e] EXCEPT !.transform = TransformOf(data),
                                         !.view = data.player_view]
            ELSE IF st.world[e].kind = "Linked" /\ st.world[e].link \in DOMAIN snap.actors
            THEN [st.world[e] EXCEPT !.transform = TransformOf(snap.actors[st.world[e].link])]
            ELSE st.world[e]
    IN  IF DOMAIN snap.players \subseteq DOMAIN st.players
        THEN [st EXCEPT !.data = snap, !.world = [e \in DOMAIN st.world |-> update(e)]]
        ELSE [st EXCEPT !.panic = TRUE]

\* one snapshot: transforms and views of the registered players it names,
\* transforms of the linked entities it names
ApplySnapshot(st, snap) ==
    LET known == DOMAIN snap.players \cap DOMAIN st.players
        named(e) == {pid \in known : st.players[pid].entity = e}
        update(e) ==
            IF named(e) # {}
            THEN LET data == snap.players[CHOOSE pid \in named(e) : TRUE]
                 IN  [st.world[e] EXCEPT !.transform = TransformOf(data),
                                         !.view = data.player_view]
            ELSE IF st.world[e].kind = "Linked" /\ st.world[e].link \in DOMAIN snap.actors
            THEN [st.world[e] EXCEPT !.transform = TransformOf(snap.actors[st.world[e].link])]
            ELSE st.world[e]
    IN  [st EXCEPT !.data = snap, !.world = [e \in DOMAIN st.world |-> update(e)]]

\* while let Some(message) = client.receive_message(Unreliable)
RECURSIVE DrainUnreliable(_, _)
DrainUnreliable(st, snaps) ==
    IF snaps = <<>> \/ st.panic THEN st
    ELSE DrainUnreliable(ApplySnapshot(st, Head(snaps)), Tail(snaps))

\* a faulty client_sync_players: the unreliable loop ahead of the reliable loop
SyncPlayersUnreliableFirst(st, msgs, snaps) == DrainReliable(DrainUnreliable(st, snaps), msgs)

\* client_sync_players: the reliable loop, then the unreliable loop
SyncPlayers(st, msgs, snaps) == DrainUnreliable(DrainReliable(st, msgs), snaps)

Unread(id) == SubSeq(chan[id], rcvd[id] + 1, Len(chan[id]))

\* new_renet_client: Some(bytes) of the encoded username, None when it
\* does not encode
username_netcode(name) ==
    LET bytes == to_netcode_data(name)
    IN  IF bytes.kind = "Ok" THEN <<bytes.value>> ELSE NoRes

\* OnEnter(LobbyState::Client): setup and new_renet_client, while the
\* identities up to max last
ClientEnterWithin(p, max) ==
    /\ clientState[p] = "None" /\ ~clientPanic[p]
    /\ nextId <= max
    /\ clientState' = [clientState EXCEPT ![p] = "Client"]
    /\ cLobby' = [cLobby EXCEPT ![p] = InitResource(@, DefaultLobby)]
    /\ ownId' = [ownId EXCEPT ![p] = InitResource(@, 0)]
    /\ cTDR' = [cTDR EXCEPT ![p] = InitResource(@, DefaultTransportData)]
    /\ connId' = [connId EXCEPT ![p] = nextId]
    /\ nextId' = nextId + 1
    /\ clientLink' = [i \in ConnIds |-> IF i = connId[p] THEN "down" ELSE clientLink[i]]
    /\ userData' = [userData EXCEPT ![nextId] = username_netcode(ConfiguredUsername(p))]
    /\ UNCHANGED <<lobbyState, mapLoader, spawnPoint, lobby, hostTDR, serverInstalled,
                   connections, serverEvents, changeMapEvents, mapRequests, hostUnload,
                   hWorld, hNextEntity, hostPanic, hostLog>>
    /\ UNCHANGED <<netVars, rcvd, cWorld, cNextEntity, cUnload, clientPanic>>
    /\ UNCHANGED <<call, coreState>>

ClientEnter(p) == ClientEnterWithin(p, MaxIds)

\* OnExit(LobbyState::Client): teardown, whose body is commented out
ClientExit(p) ==
    /\ clientState[p] = "Client" /\ ~clientPanic[p]
    /\ clientState' = [clientState EXCEPT ![p] = "None"]
    /\ UNCHANGED <<hostVars, netVars, connId, nextId, clientLink, rcvd, ownId, cLobby, cTDR,
                   cWorld, cNextEntity, cUnload, clientPanic>>
    /\ UNCHANGED <<call, coreState>>

\* client_sync_players, run in the Client role while the client is connected:
\* what has arrived of the reliable channel, then every snapshot that arrived
ClientTick(p) ==
    /\ clientState[p] = "Client" /\ ~clientPanic[p]
    /\ connId[p] # 0 /\ clientLink[connId[p]] = "up"
    /\ LET id == connId[p]
       IN  \E k \in 0 .. Len(Unread(id)) :
             /\ k > 0 \/ unreliable[id] # <<>>
             /\ LET st == SyncPlayers(ClientFrame(p), SubSeq(Unread(id), 1, k), unreliable[id])
                IN  IF st.panic
                    THEN /\ clientPanic' = [clientPanic EXCEPT ![p] = TRUE]
                         /\ UNCHANGED <<rcvd, unreliable, ownId, cLobby, cTDR, cWorld,
                                        cNextEntity, cUnload>>
                    ELSE /\ rcvd' = [rcvd EXCEPT ![id] = @ + k]
                         /\ unreliable' = [unreliable EXCEPT ![id] = <<>>]
                         /\ ownId' = [ownId EXCEPT ![p] = <<st.own>>]
                         /\ cLobby' = [cLobby EXCEPT ![p] = <<[@[1] EXCEPT !.players = st.players]>>]
                         /\ cTDR' = [cTDR EXCEPT ![p] = <<st.data>>]
                         /\ cWorld' = [cWorld EXCEPT ![p] = st.world]
                         /\ cNextEntity' = [cNextEntity EXCEPT ![p] = st.next]
                         /\ cUnload' = [cUnload EXCEPT ![p] = st.unload]
                         /\ UNCHANGED clientPanic
    /\ UNCHANGED <<hostVars, chan, clientState, connId, nextId, clientLink>>
    /\ UNCHANGED <<call, coreState>>

\* ---------------------------------------------------------- the system
\* no function is applied on its own
NoCall == [fn |-> ""]

\* the processes before any role is entered
Booted ==
    /\ lobbyState = "None" /\ mapLoader = "No" /\ spawnPoint = {}
    /\ lobby = NoRes /\ hostTDR = FALSE /\ serverInstalled = FALSE
    /\ connections = {} /\ serverEvents = <<>>
    /\ userData = [i \in ConnIds |-> NoRes]
    /\ changeMapEvents = 0 /\ mapRequests = 0 /\ hostUnload = 0
    /\ hWorld = <<>> /\ hNextEntity = 1 /\ hostPanic = FALSE /\ hostLog = <<>>
    /\ chan = [i \in ConnIds |-> <<>>]
    /\ unreliable = [i \in ConnIds |-> <<>>]
    /\ clientState = [p \in Procs |-> "None"]
    /\ connId = [p \in Procs |-> 0]
    /\ nextId = 1
    /\ clientLink = [i \in ConnIds |-> "idle"]
    /\ rcvd = [i \in ConnIds |-> 0]
    /\ ownId = [p \in Procs |-> NoRes]
    /\ cLobby = [p \in Procs |-> NoRes]
    /\ cTDR = [p \in Procs |-> NoRes]
    /\ cWorld = [p \in Procs |-> <<>>]
    /\ cNextEntity = [p \in Procs |-> 1]
    /\ cUnload = [p \in Procs |-> 0]
    /\ clientPanic = [p \in Procs |-> FALSE]
    /\ coreState = "Other"

Init == Booted /\ call = NoCall

\* One Host session and the client processes, each in one Client session.
Next ==
    \/ HostSetup
    \/ HostLoadProcessing
    \/ HostSendChangeMap
    \/ HostServerUpdate
    \/ LevelLoaded
    \/ \E id \in Ids : TransportConnect(id)
    \/ \E id \in Ids : TransportDisconnect(id)
    \/ \E p \in Procs : ClientEnter(p)
    \/ \E p \in Procs : ClientTick(p)

Spec == Init /\ [][Next]_vars

\* ------------------------------------------------ roles entered and left
\* One client process that leaves the Client role and enters it again, and
\* a hosting process that leaves the Host role.
NextLife ==
    \/ HostSetup
    \/ HostTeardown
    \/ HostLoadProcessing
    \/ HostSendChangeMap
    \/ HostServerUpdate
    \/ LevelLoaded
    \/ \E id \in Ids : TransportConnect(id)
    \/ \E id \in Ids : TransportDisconnect(id)
    \/ ClientEnter(1)
    \/ ClientExit(1)
    \/ ClientTick(1)

SpecLife == Init /\ [][NextLife]_vars

\* the hosting process through its roles, with map changes and with clients
\* that connect and leave; what the clients do with their messages is left
\* out
NextHost ==
    \/ HostSetup
    \/ HostTeardown
    \/ HostLoadProcessing
    \/ HostSendChangeMap
    \/ HostServerUpdate
    \/ RequestChangeMap
    \/ LevelLoaded
    \/ \E id \in Ids : TransportConnect(id)
    \/ \E id \in Ids : TransportDisconnect(id)
    \/ \E p \in Procs : ClientEnter(p)

SpecHost == Init /\ [][NextHost]_vars

\* ------------------------------------------- a client against any peer
\* Client process 1 in one session, fed by a peer that may send any message
\* of the protocol and any snapshot.
PeerColor(id) == generate_player_color(id)
PeerMessages ==
    <<InitConnection(1), ChangeMap, ActorDespawn("L1"), ProjectileSpawn("L1", Red),
      PlayerConnected(Client(1), PeerColor(1), ConfiguredUsername(1)),
      PlayerConnected(Client(2), PeerColor(2), ConfiguredUsername(2)),
      PlayerDisconnected(Client(1)),
      PlayerDisconnected(Client(2))>>

PlayerTransport(n) == [position |-> n, rotation |-> n + 2, player_view |-> n + 4]
ActorTransport(n) == [position |-> n, rotation |-> n + 2]
\* two snapshots: one for both players and the level object, a later one
\* that moves player 1 on, leaves out player 2 and names an unused link
PeerSnapshots ==
    {[players |-> (Client(1) :> PlayerTransport(1)) @@ (Client(2) :> PlayerTransport(1)),
      actors |-> ("L1" :> ActorTransport(1))],
     [players |-> (Client(1) :> PlayerTransport(2)),
      actors |-> ("L2" :> ActorTransport(2))]}

\* the connection of the client to its peer is established
PeerAccept(id) ==
    /\ \E p \in Procs : connId[p] = id /\ ~clientPanic[p]
    /\ clientLink[id] = "idle"
    /\ clientLink' = [clientLink EXCEPT ![id] = "up"]
    /\ UNCHANGED <<hostVars, netVars, clientState, connId, nextId, rcvd, ownId, cLobby,
                   cTDR, cWorld, cNextEntity, cUnload, clientPanic>>
    /\ UNCHANGED <<call, coreState>>

\* a reliable message of the peer arrives
PeerSend(id, m) ==
    /\ clientLink[id] = "up"
    /\ Len(chan[id]) < MaxPeerMsgs
    /\ chan' = [chan EXCEPT ![id] = Append(@, m)]
    /\ UNCHANGED <<hostVars, unreliable, clientVars>>
    /\ UNCHANGED <<call, coreState>>

\* a snapshot of the peer arrives
PeerSnapshot(id, snap) ==
    /\ clientLink[id] = "up"
    /\ Len(unreliable[id]) < MaxSnaps
    /\ unreliable' = [unreliable EXCEPT ![id] = Append(@, snap)]
    /\ UNCHANGED <<hostVars, chan, clientVars>>
    /\ UNCHANGED <<call, coreState>>

\* the level of the client holds a networked non-player actor (a level
\* object) when its connection is made
WorldSpawnLinked(p, link) ==
    /\ clientState[p] = "Client" /\ ~clientPanic[p]
    /\ clientLink[connId[p]] = "idle"
    /\ \A e \in DOMAIN cWorld[p] : cWorld[p][e].kind # "Linked"
    /\ cWorld' = [cWorld EXCEPT ![p] = (cNextEntity[p] :> Linked(link)) @@ @]
    /\ cNextEntity' = [cNextEntity EXCEPT ![p] = @ + 1]
    /\ UNCHANGED <<hostVars, netVars, clientState, connId, nextId, clientLink, rcvd, ownId,
                   cLobby, cTDR, cUnload, clientPanic>>
    /\ UNCHANGED <<call, coreState>>

NextClient ==
    \/ ClientEnter(1) /\ nextId = 1
    \/ PeerAccept(1)
    \/ \E i \in DOMAIN PeerMessages : PeerSend(1, PeerMessages[i])
    \/ \E snap \in PeerSnapshots : PeerSnapshot(1, snap)
    \/ WorldSpawnLinked(1, "L1")
    \/ ClientTick(1)

SpecClient == Init /\ [][NextClient]_vars

\* ------------------------------------ a host and clients of any making
\* A host joined by the client process whose username does not encode and
\* by clients that are not this program.
\* user data a client that is not this program authenticates with: the
\* name "B", and a byte that is no character on its own
ForeignUserData ==
    {ToLeBytes(1, PrefixBytes) \o <<66>> \o Zeros(MaxNameBytes - 1),
     ToLeBytes(1, PrefixBytes) \o <<169>> \o Zeros(MaxNameBytes - 1)}

\* the transport accepts the connection of such a client
ForeignConnect(data) ==
    /\ serverInstalled /\ ~hostPanic
    /\ nextId <= MaxIds
    /\ nextId' = nextId + 1
    /\ userData' = [userData EXCEPT ![nextId] = <<data>>]
    /\ connections' = connections \cup {nextId}
    /\ clientLink' = [clientLink EXCEPT ![nextId] = "up"]
    /\ serverEvents' = IF lobbyState = "Host"
                       THEN Append(serverEvents, ClientConnected(nextId)) ELSE serverEvents
    /\ UNCHANGED <<lobbyState, mapLoader, spawnPoint, lobby, hostTDR, serverInstalled,
                   changeMapEvents, mapRequests, hostUnload, hWorld, hNextEntity,
                   hostPanic, hostLog>>
    /\ UNCHANGED <<netVars, clientState, connId, rcvd, ownId, cLobby, cTDR, cWorld,
                   cNextEntity, cUnload, clientPanic>>
    /\ UNCHANGED <<call, coreState>>

NextJoin ==
    \/ HostSetup
    \/ HostLoadProcessing
    \/ HostServerUpdate
    \/ LevelLoaded
    \/ \E id \in Ids : TransportConnect(id)
    \/ \E id \in Ids : TransportDisconnect(id)
    \/ ClientEnter(2)
    \/ \E data \in ForeignUserData : ForeignConnect(data)

SpecJoin == Init /\ [][NextJoin]_vars

\* the systems of a running process are run frame after frame; nothing
\* obliges a client to connect or to leave, or the level to load
SpecFair ==
    /\ Spec
    /\ WF_vars(HostLoadProcessing)
    /\ WF_vars(HostSendChangeMap)
    /\ WF_vars(HostServerUpdate)
    /\ \A p \in Procs : WF_vars(ClientTick(p))

\* ------------------------------------------------- map changes of a host
\* A host whose game raises map changes, and one client process that reads
\* what it is sent.
NextMap ==
    \/ HostSetup
    \/ HostLoadProcessing
    \/ HostSendChangeMap
    \/ HostServerUpdate
    \/ RequestChangeMap
    \/ LevelLoaded
    \/ \E id \in Ids : TransportConnect(id)
    \/ ClientEnter(1)
    \/ ClientTick(1)

SpecMap == Init /\ [][NextMap]_vars

\* --------------------------------------------------------- Single role
\* The process that hosts can play alone instead: LobbyState::Single, in
\* the world of the same process.

\* OnEnter(LobbyState::Single): setup
SingleSetup ==
    /\ lobbyState = "None" /\ ~hostPanic
    /\ hostUnload < MaxSingleUnloads
    /\ lobbyState' = "Single"
    /\ changeMapEvents' = changeMapEvents + 1
    /\ UNCHANGED <<mapLoader, spawnPoint, lobby, hostTDR, serverInstalled, connections,
                   serverEvents, userData, mapRequests, hostUnload, hWorld, hNextEntity,
                   hostPanic, hostLog>>
    /\ UNCHANGED <<netVars, clientVars, call, coreState>>

\* OnEnter(CoreGameState::LoadLobby): init_lobby asks for InGame
SingleInitLobby ==
    /\ lobbyState = "Single" /\ ~hostPanic
    /\ coreState # "LoadLobby"
    /\ coreState' = "LoadLobby"
    /\ UNCHANGED <<hostVars, netVars, clientVars, call>>

\* a faulty load_processing of the Single role: a player is spawned whether
\* or not a locally controlled actor exists
SingleLoadProcessingAlwaysSpawns ==
    /\ lobbyState = "Single" /\ ~hostPanic
    /\ coreState = "LoadLobby"
    /\ coreState' = "InGame"
    /\ IF spawnPoint # {}
       THEN /\ hWorld' = (hNextEntity :> Character(HostOrSingle, TRUE))
                            @@ ((hNextEntity + 1) :> TiedCamera(hNextEntity))
                            @@ hWorld
            /\ hNextEntity' = hNextEntity + 2
       ELSE UNCHANGED <<hWorld, hNextEntity>>
    /\ UNCHANGED <<lobbyState, mapLoader, spawnPoint, lobby, hostTDR, serverInstalled,
                   connections, serverEvents, userData, changeMapEvents, mapRequests,
                   hostUnload, hostPanic, hostLog>>
    /\ UNCHANGED <<netVars, clientVars, call>>

\* OnEnter(CoreGameState::InGame): load_processing of the Single role, run
\* once when the game flow enters InGame.  The color of the player (of a
\* random number) goes to the actor alone and is not kept.
SingleLoadProcessing ==
    /\ lobbyState = "Single" /\ ~hostPanic
    /\ coreState = "LoadLobby"
    /\ coreState' = "InGame"
    /\ IF spawnPoint # {}
       THEN IF Cardinality(MeEntities(hWorld)) # 1
            THEN /\ hWorld' = (hNextEntity :> Character(HostOrSingle, TRUE))
                                 @@ ((hNextEntity + 1) :> TiedCamera(hNextEntity))
                                 @@ hWorld
                 /\ hNextEntity' = hNextEntity + 2
            ELSE /\ hWorld' = [e \in DOMAIN hWorld |->
                                 IF e \in MeEntities(hWorld)
                                 THEN [hWorld[e] EXCEPT !.forced = TRUE,
                                                        !.points = <<spawnPoint>>]
                                 ELSE hWorld[e]]
                 /\ UNCHANGED hNextEntity
       ELSE UNCHANGED <<hWorld, hNextEntity>>
    /\ UNCHANGED <<lobbyState, mapLoader, spawnPoint, lobby, hostTDR, serverInstalled,
                   connections, serverEvents, userData, changeMapEvents, mapRequests,
                   hostUnload, hostPanic, hostLog>>
    /\ UNCHANGED <<netVars, clientVars, call>>

\* change_map, run in the Single role while the game flow is in InGame
SingleChangeMap ==
    /\ lobbyState = "Single" /\ ~hostPanic
    /\ coreState = "InGame" /\ changeMapEvents > 0
    /\ hostUnload' = hostUnload + changeMapEvents
    /\ changeMapEvents' = 0
    /\ UNCHANGED <<lobbyState, mapLoader, spawnPoint, lobby, hostTDR, serverInstalled,
                   connections, serverEvents, userData, mapRequests, hWorld, hNextEntity,
                   hostPanic, hostLog>>
    /\ UNCHANGED <<netVars, clientVars, call, coreState>>

\* OnExit(LobbyState::Single): teardown.  The role is left between two
\* frames, with no change of the game flow under way.
SingleTeardown ==
    /\ lobbyState = "Single" /\ ~hostPanic
    /\ coreState # "LoadLobby"
    /\ lobbyState' = "None"
    /\ hWorld' = Despawn(hWorld,
                    (IF Cardinality(TiedCameras(hWorld)) = 1 THEN TiedCameras(hWorld) ELSE {})
                    \cup (IF Cardinality(Characters(hWorld)) = 1 THEN Characters(hWorld) ELSE {}))
    /\ hostUnload' = hostUnload + 1
    /\ UNCHANGED <<mapLoader, spawnPoint, lobby, hostTDR, serverInstalled, connections,
                   serverEvents, userData, changeMapEvents, mapRequests, hNextEntity,
                   hostPanic, hostLog>>
    /\ UNCHANGED <<netVars, clientVars, call, coreState>>

NextSingle ==
    \/ SingleSetup
    \/ SingleInitLobby
    \/ SingleLoadProcessing
    \/ SingleChangeMap
    \/ SingleTeardown
    \/ \E points \in Levels : LevelLoadedWith(points)
    \/ LevelUnloaded

\* the schedules of a running process are run: a change of the game flow
\* that was asked for takes place, and Update runs frame after frame
SpecSingle ==
    /\ Init /\ [][NextSingle]_vars
    /\ WF_vars(SingleLoadProcessing)
    /\ WF_vars(SingleChangeMap)

\* ------------------------------------------------ clients that come back
\* A host and two client processes, the first of which reads what it is
\* sent, leaves the Client role and enters it again.
NextRejoin ==
    \/ HostSetup
    \/ HostServerUpdate
    \/ LevelLoaded
    \/ \E id \in ConnIds : TransportConnect(id)
    \/ \E id \in ConnIds : TransportDisconnect(id)
    \/ \E p \in Procs : ClientEnterWithin(p, MaxIds + 1)
    \/ ClientExit(1)
    \/ ClientTick(1)

SpecRejoin == Init /\ [][NextRejoin]_vars

\* ---------------------------------------------- levels loaded and dropped
\* A host whose level is loaded, dropped and loaded again, with the spawn
\* points of one level or another, while clients connect.  load_processing
\* is run in every frame its conditions hold.
NextBarrier ==
    \/ HostSetup
    \/ HostLoadProcessing
    \/ HostServerUpdate
    \/ \E points \in Levels : LevelLoadedWith(points)
    \/ LevelUnloaded
    \/ \E id \in Ids : TransportConnect(id)
    \/ \E p \in Procs : ClientEnter(p)

SpecBarrier ==
    /\ Init /\ [][NextBarrier]_vars
    /\ WF_vars(HostLoadProcessing)
    /\ WF_vars(HostServerUpdate)

\* ------------------------------------------- functions on their own
\* generate_player_color applied to every player number of the range
InitColor ==
    /\ Booted
    /\ \E n \in 1 .. MaxPlayerNumber :
         call = [fn |-> "generate_player_color", in |-> n, out |-> NoRes]

ApplyColor ==
    /\ call.fn = "generate_player_color" /\ call.out = NoRes
    /\ call' = [call EXCEPT !.out = <<PlayerColor(call.in)>>]
    /\ UNCHANGED <<hostVars, netVars, clientVars, coreState>>

NextColor == ApplyColor

SpecColor == InitColor /\ [][NextColor]_vars

\* the username codec applied to every name and to every buffer of the
\* range.  Bytes of a name: NUL, "A", and the two bytes of a two-byte
\* character, also on their own
NameBytes == {0, 65, 195, 169}
\* low byte of a length prefix: every length up to one beyond the usable
\* bytes, and the largest byte
PrefixLow == (0 .. MaxNameBytes + 1) \cup {255}
\* the seven higher bytes of a length prefix
PrefixHigh == {0, 1}

\* the byte sequences of length n over a set of bytes
BytesOf(n, bytes) == [1 .. n -> bytes]
\* the names of at most max bytes: a String holds well-formed UTF-8
Names(max) == UNION {{b \in BytesOf(n, NameBytes) : ValidUtf8(b)} : n \in 0 .. max}
\* the buffers with a payload of size bytes
UserData(size) ==
    {<<low>> \o high \o payload :
        low \in PrefixLow, high \in BytesOf(PrefixBytes - 1, PrefixHigh),
        payload \in BytesOf(size, NameBytes)}

InitCodec ==
    /\ Booted
    /\ \/ \E name \in Names(MaxNameBytes + 1) : call = [fn |-> "to_netcode_data", in |-> name, out |-> NoRes]
       \/ \E data \in UserData(MaxNameBytes) : call = [fn |-> "from_user_data", in |-> data, out |-> NoRes]

EncodeUsername ==
    /\ call.fn = "to_netcode_data" /\ call.out = NoRes
    /\ call' = [call EXCEPT !.out = <<to_netcode_data(call.in)>>]
    /\ UNCHANGED <<hostVars, netVars, clientVars, coreState>>

\* the buffer of an encoded name is decoded
DecodeEncoded ==
    /\ call.fn = "to_netcode_data" /\ call.out # NoRes
    /\ call.out[1].kind = "Ok"
    /\ call' = [fn |-> "round_trip", in |-> call.in,
                out |-> <<from_user_data(call.out[1].value)>>]
    /\ UNCHANGED <<hostVars, netVars, clientVars, coreState>>

DecodeUserData ==
    /\ call.fn = "from_user_data" /\ call.out = NoRes
    /\ call' = [call EXCEPT !.out = <<from_user_data(call.in)>>]
    /\ UNCHANGED <<hostVars, netVars, clientVars, coreState>>

NextCodec ==
    \/ EncodeUsername
    \/ DecodeEncoded
    \/ DecodeUserData

SpecCodec == InitCodec /\ [][NextCodec]_vars

\* the registry of a Lobby on its own: any players map, and the operations
\* the systems apply to it, for every identity of a client
RegistryData ==
    {PlayerData(i, generate_player_color(i), ConfiguredUsername(i)) : i \in Procs}
RegistryIds == {Client(i) : i \in Ids}
Registries ==
    UNION {[S -> RegistryData] : S \in SUBSET RegistryIds}

\* an operation applied: its kind, its identity, the data inserted, and
\* what it returned
Applied(op, pid, data, ret) == [op |-> op, id |-> pid, data |-> data, ret |-> ret]
NoneApplied == Applied("none", Client(0), DefaultPlayerData, NoRes)

InitRegistry ==
    /\ Booted
    /\ \E players \in Registries :
         call = [fn |-> "Lobby", players |-> players,
                 last |-> NoneApplied, before |-> NoneApplied]

\* lobby.players.insert(player_id, player_data)
PlayersInsert(pid, data) ==
    /\ call.fn = "Lobby"
    /\ call' = [call EXCEPT !.players = MapInsert(@, pid, data),
                            !.last = Applied("insert", pid, data, NoRes),
                            !.before = call.last]
    /\ UNCHANGED <<hostVars, netVars, clientVars, coreState>>

\* lobby.players.remove(&player_id)
PlayersRemove(pid) ==
    /\ call.fn = "Lobby"
    /\ call' = [call EXCEPT !.players = MapRemove(@, pid),
                            !.last = Applied("remove", pid, DefaultPlayerData,
                                             MapGet(call.players, pid)),
                            !.before = call.last]
    /\ UNCHANGED <<hostVars, netVars, clientVars, coreState>>

\* lobby.players.get(&player_id)
PlayersGet(pid) ==
    /\ call.fn = "Lobby"
    /\ call' = [call EXCEPT !.last = Applied("get", pid, DefaultPlayerData,
                                             MapGet(call.players, pid)),
                            !.before = call.last]
    /\ UNCHANGED <<hostVars, netVars, clientVars, coreState>>

NextRegistry ==
    \/ \E pid \in RegistryIds : \E data \in RegistryData : PlayersInsert(pid, data)
    \/ \E pid \in RegistryIds : PlayersRemove(pid)
    \/ \E pid \in RegistryIds : PlayersGet(pid)

SpecRegistry == InitRegistry /\ [][NextRegistry]_vars

\* ========================================================== properties
IsPC(m, pid) == m.type = "PlayerConnected" /\ m.id = pid
IsPD(m, pid) == m.type = "PlayerDisconnected" /\ m.id = pid
ClientIds == {Client(i) : i \in Ids}

\* in this step process p runs client_sync_players to its end
Ticked(p) ==
    /\ clientState[p] = "Client" /\ connId[p] # 0 /\ connId'[p] = connId[p]
    /\ ~clientPanic'[p]
    /\ \/ rcvd'[connId[p]] > rcvd[connId[p]]
       \/ unreliable[connId[p]] # <<>> /\ unreliable'[connId[p]] = <<>>
\* the reliable messages process p reads in this step
ReadNow(p) == SubSeq(chan[connId[p]], rcvd[connId[p]] + 1, rcvd'[connId[p]])
\* in this step process p panics
Panics(p) == clientPanic'[p] /\ ~clientPanic[p]

\* ------------------------------------------------------------------ C1
ConnectSendsAsStated(e) ==
    LET Y == e.ev.client_id
        S == DOMAIN e.before
        n == Len(e.sends)
    IN  /\ n = Cardinality(S) + 2
        /\ e.sends[1] = Unicast(Y, InitConnection(Y))
        /\ \A i \in 2 .. n - 1 :
             /\ e.sends[i].kind = "unicast" /\ e.sends[i].to = Y
             /\ e.sends[i].msg.type = "PlayerConnected"
             /\ e.sends[i].msg.id \in S
        /\ \A pid \in S : Cardinality({i \in 2 .. n - 1 : e.sends[i].msg.id = pid}) = 1
        /\ e.sends[n].kind = "broadcast" /\ e.sends[n].to = e.conns /\ Y \in e.conns
        /\ e.sends[n].msg.type = "PlayerConnected" /\ e.sends[n].msg.id = Client(Y)

\* C1: for every connect event of a connection Y the host has handled while
\* its player map held the set S (Y not in S), the reliable messages of that
\* event are one InitConnection{Y} to Y, then one PlayerConnected to Y for
\* each member of S and none for Y, then one PlayerConnected{Client(Y)}
\* broadcast to every connected client, Y included.
C1_ConnectMessages ==
    \A i \in DOMAIN hostLog :
        (/\ hostLog[i].ev.type = "ClientConnected"
         /\ Client(hostLog[i].ev.client_id) \notin DOMAIN hostLog[i].before)
        => ConnectSendsAsStated(hostLog[i])

\* ------------------------------------------------------------------ C2
DisconnectOfTwo(e, X, Y) ==
    /\ e.ev = ClientDisconnected(X)
    /\ X # Y
    /\ Client(X) \in DOMAIN e.before /\ Client(Y) \in DOMAIN e.before
    /\ Y \in e.conns
HasReadPD(p, Y, X) ==
    /\ connId[p] = Y
    /\ \E j \in 1 .. rcvd[Y] : IsPD(chan[Y][j], Client(X))

\* C2: with X and Y connected and registered, the host's handling of X's
\* disconnect event is one PlayerDisconnected{Client(X)} broadcast, leaves no
\* entry for X and Y's entry as it was; and once Y has read that message, Y's
\* registry has no entry for X and still has Y's entry as the host announced
\* it, and Y was sent the message once.
C2_DisconnectCascade ==
    \A i \in DOMAIN hostLog : \A X, Y \in Ids :
        LET e == hostLog[i]
        IN  DisconnectOfTwo(e, X, Y) =>
              /\ e.sends = <<[kind |-> "broadcast", to |-> e.conns,
                              msg |-> PlayerDisconnected(Client(X))]>>
              /\ Client(X) \notin DOMAIN e.after
              /\ Client(Y) \in DOMAIN e.after
              /\ e.after[Client(Y)] = e.before[Client(Y)]
              /\ \A p \in Procs :
                   HasReadPD(p, Y, X) =>
                     /\ ~clientPanic[p]
                     /\ Client(X) \notin DOMAIN cLobby[p][1].players
                     /\ Client(Y) \in DOMAIN cLobby[p][1].players
                     /\ cLobby[p][1].players[Client(Y)].color = e.before[Client(Y)].color
                     /\ cLobby[p][1].players[Client(Y)].username
                          = e.before[Client(Y)].username
                     /\ Cardinality({j \in DOMAIN chan[Y] : IsPD(chan[Y][j], Client(X))}) = 1

\* X disconnected while Y was registered, and Y has read the announcement
C2_Cascaded ==
    \E i \in DOMAIN hostLog : \E X, Y \in Ids : \E p \in Procs :
        /\ DisconnectOfTwo(hostLog[i], X, Y)
        /\ HasReadPD(p, Y, X)
        /\ ~hostPanic /\ ~clientPanic[p]
        /\ Client(X) \notin DOMAIN lobby[1].players

\* ------------------------------------------------------------------ C3
\* the last of the snapshots that has an entry for pid
LastNaming(snaps, pid) ==
    LET I == {i \in DOMAIN snaps : pid \in DOMAIN snaps[i].players}
    IN  snaps[CHOOSE i \in I : \A j \in I : j <= i]

\* C3: whenever one client tick reads a PlayerConnected{id} (with no
\* PlayerDisconnected{id} after it) and a snapshot with an entry for id, then
\* after the tick id is registered and the transform of its actor is the
\* position and rotation of the (last such) snapshot: the reliable channel is
\* drained before the unreliable one.
C3_ReliableFirst ==
    [][\A pid \in ClientIds :
         LET batch == ReadNow(1)
             snaps == unreliable[connId[1]]
         IN  (/\ Ticked(1)
              /\ \E i \in DOMAIN batch :
                   /\ IsPC(batch[i], pid)
                   /\ \A j \in i + 1 .. Len(batch) : ~IsPD(batch[j], pid)
              /\ \E s \in DOMAIN snaps : pid \in DOMAIN snaps[s].players)
             => /\ pid \in DOMAIN cLobby'[1][1].players
                /\ LET e == cLobby'[1][1].players[pid].entity
                       data == LastNaming(snaps, pid).players[pid]
                   IN  /\ e \in DOMAIN cWorld'[1]
                       /\ cWorld'[1][e].transform
                            = [translation |-> data.position, rotation |-> data.rotation]]_vars

\* a player announced and moved by a snapshot: registered, its actor off the
\* origin where the shell was spawned
C3_SpawnedThenMoved ==
    /\ ~clientPanic[1] /\ cLobby[1] # NoRes
    /\ \E pid \in DOMAIN cLobby[1][1].players :
         /\ pid \in DOMAIN cTDR[1][1].players
         /\ cWorld[1][cLobby[1][1].players[pid].entity].transform
              = [translation |-> cTDR[1][1].players[pid].position,
                 rotation |-> cTDR[1][1].players[pid].rotation]
         /\ cTDR[1][1].players[pid].position # 0

\* ------------------------------------------------------------------ C4
\* the InitConnection messages among the first n messages of connection c
InitsIn(c, n) == {i \in 1 .. n : chan[c][i].type = "InitConnection"}

\* C4: in a session of a client, the first InitConnection it receives is
\* recorded as its own identity and is no protocol violation (the client
\* stops with a fatal error only when its connection carries a second
\* InitConnection), and an own identity that is recorded does not change
\* while the session lasts.
C4_OwnIdentity ==
    [][\A p \in Procs :
         LET c == connId[p]
         IN  (clientState[p] = "Client" /\ c # 0 /\ connId'[p] = c /\ clientState'[p] = "Client")
             => /\ Panics(p) => Cardinality(InitsIn(c, Len(chan[c]))) >= 2
                /\ \A i \in InitsIn(c, rcvd'[c]) \ InitsIn(c, rcvd[c]) :
                     (Ticked(p) /\ InitsIn(c, i - 1) = {}) => ownId'[p] = <<chan[c][i].id>>
                /\ ownId[p][1] # 0 => ownId'[p] = ownId[p]]_vars

\* ------------------------------------------------------------------ C5
\* C5: no client receives two PlayerConnected messages for the same identity
\* without a PlayerDisconnected for that identity in between.
C5_OnePlayerConnected ==
    \A c \in Ids : \A i, j \in 1 .. rcvd[c] :
        (/\ i < j
         /\ chan[c][i].type = "PlayerConnected" /\ chan[c][j].type = "PlayerConnected"
         /\ chan[c][i].id = chan[c][j].id)
        => \E k \in i + 1 .. j - 1 : IsPD(chan[c][k], chan[c][i].id)

\* ------------------------------------------------------------------ C6
\* C6: every PlayerDisconnected{id} a client receives is preceded by a
\* PlayerConnected{id} the same client received earlier.
C6_ConnectBeforeDisconnect ==
    \A c \in Ids : \A j \in 1 .. rcvd[c] :
        chan[c][j].type = "PlayerDisconnected"
        => \E i \in 1 .. j - 1 : IsPC(chan[c][i], chan[c][j].id)

SnapshotPlayers(snaps) == UNION {DOMAIN snaps[s].players : s \in DOMAIN snaps}
SnapshotLinks(snaps) == UNION {DOMAIN snaps[s].actors : s \in DOMAIN snaps}

\* C8: no snapshot is a fatal error (a client stops only with an
\* InitConnection or a ProjectileSpawn unread on its reliable channel), and a
\* tick that reads snapshots only leaves the registry, the own identity, the
\* set of entities and every entity no entry names (no registered player of
\* an entry, no linked entity of an entry) as they were: an entry for an
\* unregistered identity or an unused link changes nothing.
C8_SnapshotMiss ==
    [][LET c == connId[1]
           snaps == unreliable[c]
           players == cLobby[1][1].players
           moved == {players[pid].entity : pid \in SnapshotPlayers(snaps) \cap DOMAIN players}
       IN  /\ (clientState[1] = "Client" /\ c # 0 /\ Panics(1))
              => \E i \in rcvd[c] + 1 .. Len(chan[c]) :
                     chan[c][i].type \in {"InitConnection", "ProjectileSpawn"}
           /\ (Ticked(1) /\ rcvd'[c] = rcvd[c])
              => /\ cLobby'[1] = cLobby[1]
                 /\ ownId'[1] = ownId[1]
                 /\ DOMAIN cWorld'[1] = DOMAIN cWorld[1]
                 /\ \A e \in DOMAIN cWorld[1] \ moved :
                      ~(cWorld[1][e].kind = "Linked"
                          /\ cWorld[1][e].link \in SnapshotLinks(snaps))
                      => cWorld'[1][e] = cWorld[1][e]]_vars

\* the client has read a snapshot with an entry for a player that had been
\* disconnected and an entry for a link no entity carries, and went on with
\* its level object where it was
C8_MissesRead ==
    /\ ~clientPanic[1] /\ cTDR[1] # NoRes
    /\ Client(1) \in DOMAIN cTDR[1][1].players
    /\ Client(1) \notin DOMAIN cLobby[1][1].players
    /\ \E j \in 1 .. rcvd[1] : IsPD(chan[1][j], Client(1))
    /\ "L2" \in DOMAIN cTDR[1][1].actors
    /\ \E e \in DOMAIN cWorld[1] :
         cWorld[1][e].kind = "Linked" /\ cWorld[1][e].transform = Origin
    /\ \A e \in DOMAIN cWorld[1] : cWorld[1][e].kind = "Linked" => cWorld[1][e].link # "L2"

\* ------------------------------------------------------------------ C9
\* C9: while the process stays in the Host role with a client connected, a
\* snapshot is broadcast on the unreliable channel and reaches that client.
C9_SnapshotBroadcast ==
    \A c \in Ids :
        (<>[](lobbyState = "Host" /\ ~hostPanic /\ c \in connections))
        => <>(unreliable[c] # <<>>)

\* ------------------------------------------------------------------ C10
\* C10: whenever the process is outside the Host role after a step, no
\* Character and no tied camera is left, the Lobby and the snapshot buffer
\* are removed, and the step that left the Host role sent one unload signal.
C10_HostTeardown ==
    [][lobbyState' = "None"
       => /\ Characters(hWorld') = {}
          /\ TiedCameras(hWorld') = {}
          /\ lobby' = NoRes
          /\ ~hostTDR'
          /\ lobbyState = "Host" => hostUnload' = hostUnload + 1]_vars

\* the Host role was left with the host's player, its camera and the player
\* of a client spawned, and the client registered
C10_LeftWithPlayers ==
    /\ lobbyState = "None" /\ ~hostPanic
    /\ hostLog # <<>>
    /\ hostLog[Len(hostLog)].ev.type = "ClientConnected"
    /\ ~hostLog[Len(hostLog)].panic
    /\ hNextEntity >= 4
    /\ hWorld = <<>>

\* ------------------------------------------------------------------ C11
\* C11: a step that takes a client process out of the Client role leaves no
\* player actor shell and no tied camera in its world, and its Lobby, its
\* OwnId and its TransportDataResource are removed.
C11_ClientTeardown ==
    [][\A p \in Procs :
         (clientState[p] = "Client" /\ clientState'[p] = "None")
         => /\ Characters(cWorld'[p]) = {}
            /\ TiedCameras(cWorld'[p]) = {}
            /\ cLobby'[p] = NoRes
            /\ ownId'[p] = NoRes
            /\ cTDR'[p] = NoRes]_vars

\* ------------------------------------------------------------------ C12
\* the unread reliable messages of process p that are of the given type
UnreadOfType(p, type) ==
    {i \in rcvd[connId[p]] + 1 .. Len(chan[connId[p]]) : chan[connId[p]][i].type = type}

\* C12: a ProjectileSpawn on the reliable channel is no fatal error: a client
\* whose unread reliable messages hold no InitConnection (the one message
\* that may be a protocol violation) does not stop, whether or not a
\* ProjectileSpawn is among them, and a tick that has read a ProjectileSpawn
\* has read the snapshots waiting behind it.
C12_ProjectileSpawnGap ==
    [][/\ (clientState[1] = "Client" /\ connId[1] # 0 /\ UnreadOfType(1, "InitConnection") = {})
          => ~Panics(1)
       /\ (Ticked(1) /\ \E i \in DOMAIN ReadNow(1) : ReadNow(1)[i].type = "ProjectileSpawn")
          => unreliable'[connId[1]] = <<>>]_vars

\* ------------------------------------------------------------------ C13
\* C13: while the spawn-point set of the level is empty, no step of the Host
\* role spawns a player actor and none ends in a fatal error: a connect event
\* handled before the spawn points are known samples no spawn point.
C13_LoadBarrier ==
    [][(lobbyState = "Host" /\ ~hostPanic /\ spawnPoint = {})
       => /\ Characters(hWorld') \subseteq Characters(hWorld)
          /\ ~hostPanic']_vars

\* ------------------------------------------------------------------ C14
\* the player actors spawned in this step
SpawnedNow == {e \in Characters(hWorld') : e \notin DOMAIN hWorld}
\* the connect events among the entries i of the log that were handled to the end
Connects(log, I) == {i \in I : log[i].ev.type = "ClientConnected" /\ ~log[i].panic}
\* the host's own player is spawned
HostSpawned(l) == l[1].me.entity # NoEntity

\* C14: in every step of a live hosting process that keeps its registry, the
\* sequence counter does not decrease and grows by the number of player
\* actors spawned in the step, which is one for each connect event handled
\* and one for the host's own player; so the counter is the number of spawns
\* since the registry was installed, and the players were given pairwise
\* different numbers of 1 .. counter (a player carries its number as the
\* color generated from it).
C14_SequenceCounter ==
    [][(lobby # NoRes /\ lobby' # NoRes /\ ~hostPanic')
       => LET seq == lobby[1].players_seq
              after == lobby'[1].players_seq
              players == lobby'[1].players
          IN  /\ after >= seq
              /\ after = seq + Cardinality(SpawnedNow)
              /\ Cardinality(SpawnedNow)
                   = Cardinality(Connects(hostLog', Len(hostLog) + 1 .. Len(hostLog')))
                       + (IF HostSpawned(lobby') /\ ~HostSpawned(lobby) THEN 1 ELSE 0)
              /\ after = Cardinality(Connects(hostLog', DOMAIN hostLog'))
                           + (IF HostSpawned(lobby') THEN 1 ELSE 0)
              /\ \A pid \in DOMAIN players :
                   /\ \E n \in 1 .. after : players[pid].color = generate_player_color(n)
                   /\ HostSpawned(lobby') => players[pid].color # lobby'[1].me.color
                   /\ \A other \in DOMAIN players \ {pid} :
                        players[other].color # players[pid].color
              /\ HostSpawned(lobby')
                 => \E n \in 1 .. after : lobby'[1].me.color = generate_player_color(n)]_vars

\* the host's own player and the players of two clients are spawned: the
\* counter is three
C14_ThreeSpawns ==
    /\ lobby # NoRes /\ ~hostPanic
    /\ HostSpawned(lobby)
    /\ Cardinality(DOMAIN lobby[1].players) = 2
    /\ lobby[1].players_seq = 3

\* ------------------------------------------------------------------ C15
\* C15: for every player number n of 1 .. MaxPlayerNumber (the number of the
\* n-th spawn from a fresh counter), the color generated for n has the hue
\* (137.5 * n) mod 360, in half degrees (275 * n) mod 720, saturation 1.0 and
\* lightness 0.5.
C15_PlayerColor ==
    (call.fn = "generate_player_color" /\ call.out # NoRes)
    => /\ call.out[1].hue2 = (275 * call.in) % 720
       /\ call.out[1].hue2 < 720
       /\ call.out[1].saturation2 = 2
       /\ call.out[1].lightness2 = 1

\* a color generated for a player number whose multiple of 137.5 is beyond
\* 360 degrees many times over: 150 gives 105 degrees
C15_Wrapped ==
    /\ call.fn = "generate_player_color" /\ call.out # NoRes
    /\ call.in = 150
    /\ call.out[1].hue2 = 210

\* ------------------------------------------------------------------ C16
\* C16: a name of at most MaxNameBytes bytes (the buffer size less 8) is
\* encoded into a buffer, and that buffer decodes to the name; a longer name
\* is refused with an error and no buffer.
C16_RoundTrip ==
    /\ (call.fn = "to_netcode_data" /\ call.out # NoRes)
       => IF Len(call.in) <= MaxNameBytes
          THEN call.out[1].kind = "Ok" /\ Len(call.out[1].value) = MaxNameBytes + 8
          ELSE call.out[1] = Err
    /\ call.fn = "round_trip"
       => /\ Len(call.in) <= MaxNameBytes
          /\ call.out[1] = Ok(call.in)

\* a name that fills the usable bytes, with a two-byte character in it, came
\* back from its buffer
C16_FullNameBack ==
    /\ call.fn = "round_trip"
    /\ Len(call.in) = MaxNameBytes
    /\ \E i \in DOMAIN call.in : call.in[i] = 195
    /\ call.out[1].kind = "Ok" /\ call.out[1].value = call.in

\* ------------------------------------------------------------------ C17
\* the length a prefix stands for, clamped: a prefix with a higher byte set
\* is beyond every length of the range
ClampedLength(user_data) ==
    IF \E i \in 2 .. 8 : user_data[i] # 0 \/ user_data[1] > MaxNameBytes
    THEN MaxNameBytes
    ELSE user_data[1]

\* C17: for every content of the buffer, decoding reads no byte outside the
\* buffer (it does not stop with a slice out of range); the bytes decoded are
\* those at positions 8 .. 8 + min(prefix, buffer size - 8), they are the
\* result when they are well-formed UTF-8, and only otherwise is the result
\* an error.
C17_DecodeInBounds ==
    (call.fn = "from_user_data" /\ call.out # NoRes)
    => LET len == ClampedLength(call.in)
           read == [i \in 1 .. len |-> call.in[8 + i]]
       IN  /\ 8 + len <= Len(call.in)
           /\ call.out[1].kind # "panic"
           /\ IF ValidUtf8(read)
              THEN call.out[1] = Ok(read)
              ELSE call.out[1] = Err

\* a buffer whose length prefix is beyond the buffer was decoded to the
\* bytes that fill the buffer
C17_LongPrefixDecoded ==
    /\ call.fn = "from_user_data" /\ call.out # NoRes
    /\ call.in[1] = 255 /\ call.in[8] = 1
    /\ call.out[1].kind = "Ok"
    /\ Len(call.out[1].value) = MaxNameBytes

\* ------------------------------------------------------------------ C18
\* the user data of connection id does not decode to a username
Undecodable(id) == from_user_data(TokenUserData(userData[id])).kind = "Err"
\* the configured username of process p does not encode
TooLong(p) == to_netcode_data(ConfiguredUsername(p)).kind = "Err"
\* every connect event that waits is of a client that is still connected
WaitingStillConnected ==
    \A i \in DOMAIN serverEvents :
        serverEvents[i].type = "ClientConnected" => serverEvents[i].client_id \in connections

\* C18: a username failure aborts nothing.  A host tick with the spawn points
\* known and the waiting clients still connected ends in no fatal error,
\* whatever the user data; a connect event handled for user data that does
\* not decode leaves the player spawned and registered under the sentinel
\* username, its last message the PlayerConnected broadcast with the
\* sentinel; and a client whose configured username does not encode enters
\* the Client role with a connection opened without user data.
C18_UsernameFailures ==
    [][/\ (HostRunning /\ spawnPoint # {} /\ WaitingStillConnected) => ~hostPanic'
       /\ \A i \in Len(hostLog) + 1 .. Len(hostLog') :
            LET e == hostLog'[i]
                Y == e.ev.client_id
            IN  (e.ev.type = "ClientConnected" /\ ~e.panic /\ Undecodable(Y))
                => /\ Client(Y) \in DOMAIN e.after
                   /\ e.after[Client(Y)].username = Corrupted
                   /\ e.after[Client(Y)].entity # NoEntity
                   /\ e.sends[Len(e.sends)]
                        = [kind |-> "broadcast", to |-> e.conns,
                           msg |-> PlayerConnected(Client(Y), e.after[Client(Y)].color,
                                                   Corrupted)]
       /\ \A p \in Procs :
            (clientState[p] = "None" /\ clientState'[p] = "Client" /\ TooLong(p))
            => /\ ~clientPanic'[p]
               /\ connId'[p] \in Ids
               /\ clientLink'[connId'[p]] = "idle"
               /\ userData'[connId'[p]] = NoRes]_vars

\* a client with user data that does not decode is registered under the
\* sentinel, and a client whose username does not encode is connected
C18_BothFailures ==
    /\ ~hostPanic /\ lobby # NoRes
    /\ \E Y \in Ids :
         /\ Undecodable(Y)
         /\ Client(Y) \in DOMAIN lobby[1].players
         /\ lobby[1].players[Client(Y)].username = Corrupted
    /\ \E p \in Procs :
         /\ TooLong(p) /\ clientState[p] = "Client"
         /\ connId[p] \in connections
         /\ userData[connId[p]] = NoRes
         /\ Client(connId[p]) \in DOMAIN lobby[1].players

\* ------------------------------------------------------------------ C19
\* the entries of an identity other than pid are the same in m and in n
SameButFor(m, n, pid) ==
    /\ DOMAIN m \ {pid} = DOMAIN n \ {pid}
    /\ \A other \in DOMAIN m \ {pid} : n[other] = m[other]

\* C19: a lookup of an identity right after it was registered and then
\* unregistered returns nothing; unregistering leaves no entry of the
\* identity and the other entries as they were, returns the entry, and for
\* an identity that is not registered returns nothing and leaves the registry
\* as it was; registering sets the entry of the identity, leaves the others,
\* and for an identity already registered leaves the number of entries as it
\* was.
C19_RegistryLifecycle ==
    [][call.fn = "Lobby"
       => LET op == call'.last
              m == call.players
              n == call'.players
          IN  /\ (/\ op.op = "get"
                  /\ call.last.op = "remove" /\ call.last.id = op.id
                  /\ call.before.op = "insert" /\ call.before.id = op.id)
                 => op.ret = NoRes
              /\ op.op = "get" => n = m
              /\ op.op = "remove"
                 => /\ op.id \notin DOMAIN n
                    /\ SameButFor(m, n, op.id)
                    /\ op.id \in DOMAIN m => op.ret = <<m[op.id]>>
                    /\ op.id \notin DOMAIN m => (op.ret = NoRes /\ n = m)
              /\ op.op = "insert"
                 => /\ op.id \in DOMAIN n /\ n[op.id] = op.data
                    /\ SameButFor(m, n, op.id)
                    /\ op.id \in DOMAIN m
                       => Cardinality(DOMAIN n) = Cardinality(DOMAIN m)]_vars

\* an identity was unregistered, its entry returned, and the lookup that
\* followed found nothing, while another identity is still registered
C19_LookedUpAfterRemove ==
    /\ call.fn = "Lobby"
    /\ call.last.op = "get" /\ call.last.ret = NoRes
    /\ call.before.op = "remove" /\ call.before.id = call.last.id
    /\ call.before.ret # NoRes
    /\ call.players # <<>>

\* ------------------------------------------------------------------ C20
\* C20: a step of a process outside the Host role whose socket cannot be
\* bound (the transport of an earlier session still holds the address) does
\* not end the process: it stays outside the role, and no Lobby and no
\* TransportDataResource is installed.
C20_SetupFault ==
    [][(lobbyState = "None" /\ ~hostPanic /\ serverInstalled)
       => /\ ~hostPanic'
          /\ lobbyState' = "None"
          /\ lobby' = NoRes
          /\ ~hostTDR']_vars

\* ------------------------------------------------------------------ C21
\* the ChangeMap messages among the messages msgs
ChangeMaps(msgs) == {i \in DOMAIN msgs : msgs[i].type = "ChangeMap"}
\* the reliable messages queued on connection c in this step
SentNow(c) == SubSeq(chan'[c], Len(chan[c]) + 1, Len(chan'[c]))

\* C21: in every step of a live host that stays in the Host role, the
\* map-change requests read in the step (all that wait, or none) are each
\* answered with one ChangeMap queued on the reliable channel of every
\* connection the server holds and with one unload signal of the host, and
\* no other ChangeMap and no other unload signal is produced; the request of
\* Host entry waits like any other.  A client tick run to its end sends one
\* unload signal for each ChangeMap it reads, and no other step of a client
\* sends any.
C21_ChangeMap ==
    [][/\ (HostRunning /\ lobbyState' = "Host" /\ ~hostPanic')
          => LET read == IF changeMapEvents' < changeMapEvents THEN changeMapEvents ELSE 0
             IN  /\ changeMapEvents' < changeMapEvents => changeMapEvents' = 0
                 /\ hostUnload' = hostUnload + read
                 /\ \A c \in Ids :
                      Cardinality(ChangeMaps(SentNow(c)))
                        = (IF c \in connections THEN read ELSE 0)
       /\ (lobbyState = "None" /\ lobbyState' = "Host") => changeMapEvents' = changeMapEvents + 1
       /\ \A p \in Procs :
            cUnload'[p] = cUnload[p]
                + (IF Ticked(p) THEN Cardinality(ChangeMaps(ReadNow(p))) ELSE 0)]_vars

\* the request of Host entry and a request of the game were both answered,
\* the host has sent two unload signals, and a client that was connected for
\* one of them or for both has read its ChangeMap messages and sent as many
\* unload signals
C21_BothAnswered ==
    /\ HostRunning /\ mapRequests = 1 /\ changeMapEvents = 0
    /\ hostUnload = 2
    /\ ~clientPanic[1] /\ connId[1] # 0
    /\ rcvd[connId[1]] = Len(chan[connId[1]])
    /\ cUnload[1] >= 1
    /\ cUnload[1] = Cardinality(ChangeMaps(chan[connId[1]]))

\* ------------------------------------------------------------------ C22
\* entity e of the world after the tick is named by snapshot snap: it is the
\* actor of a registered player of an entry, or a linked entity of an entry
NamedBy(snap, e) ==
    \/ \E pid \in DOMAIN snap.players \cap DOMAIN cLobby'[1][1].players :
         cLobby'[1][1].players[pid].entity = e
    \/ cWorld'[1][e].kind = "Linked" /\ cWorld'[1][e].link \in DOMAIN snap.actors

\* C22: a client tick that reads snapshots applies the last of them only:
\* after the tick the snapshot buffer holds the last snapshot, and every
\* entity the last snapshot does not name has the transform it had before
\* the tick (the origin, for a shell spawned in the tick), whatever the
\* earlier snapshots of the batch say about it.
C22_LastSnapshotOnly ==
    [][LET snaps == unreliable[connId[1]]
           last == snaps[Len(snaps)]
       IN  (Ticked(1) /\ snaps # <<>>)
           => /\ cTDR'[1] = <<last>>
              /\ \A e \in DOMAIN cWorld'[1] :
                   (cWorld'[1][e].kind # "TiedCamera" /\ ~NamedBy(last, e))
                   => cWorld'[1][e].transform
                        = (IF e \in DOMAIN cWorld[1]
                           THEN cWorld[1][e].transform ELSE Origin)]_vars

\* ------------------------------------------------------------------ C23
\* C23: after every step that takes a client process into the Client role,
\* its registry is the empty one and its own identity is unset; and a tick
\* of a session that reads the first InitConnection of its connection is no
\* fatal error.
C23_FreshOnEntry ==
    [][\A p \in Procs :
         /\ (clientState[p] = "None" /\ clientState'[p] = "Client")
            => /\ cLobby'[p] = <<DefaultLobby>>
               /\ ownId'[p] = <<0>>
         /\ (clientState[p] = "Client" /\ connId[p] # 0 /\ Panics(p))
            => Cardinality(InitsIn(connId[p], Len(chan[connId[p]]))) # 1]_vars

\* ------------------------------------------------------------------ C24
\* the own identity process p has recorded when it comes to message i of
\* the batch it reads in this step: 0 while none is recorded
OwnBefore(p, i) ==
    LET batch == ReadNow(p)
        inits == {j \in 1 .. i - 1 : batch[j].type = "InitConnection"}
    IN  IF ownId[p][1] # 0 THEN ownId[p][1]
        ELSE IF inits = {} THEN 0
        ELSE batch[CHOOSE j \in inits : \A k \in inits : j <= k].id
\* the PlayerConnected messages of the batch, and those for the own identity
Announced(p) == {i \in DOMAIN ReadNow(p) : ReadNow(p)[i].type = "PlayerConnected"}
AnnouncedMine(p) == {i \in Announced(p) : ReadNow(p)[i].id = Client(OwnBefore(p, i))}
\* the entities process p spawns in this step and still has after it
NewEntities(p) == DOMAIN cWorld'[p] \ DOMAIN cWorld[p]

\* C24: a client tick run to its end spawns one shell for every
\* PlayerConnected it reads and a camera besides for those whose identity is
\* the own identity recorded by then; a shell spawned in the tick is tagged
\* locally controlled exactly when it is for that identity, and then its
\* camera is tied to it; every identity announced (and not disconnected
\* later in the tick) is registered with a shell of the tick.  With a host of
\* this program, in every state a client process has at most one actor
\* tagged locally controlled, and it is the actor registered under its own
\* identity.
C24_LocallyControlled ==
    [][\A p \in Procs :
         /\ Ticked(p)
            => /\ cNextEntity'[p] - cNextEntity[p]
                    = Cardinality(Announced(p)) + Cardinality(AnnouncedMine(p))
               /\ Cardinality(TiedCameras(cWorld'[p]) \cap NewEntities(p))
                    = Cardinality(AnnouncedMine(p))
               /\ \A e \in Characters(cWorld'[p]) \cap NewEntities(p) :
                    /\ cWorld'[p][e].me = (cWorld'[p][e].id = Client(ownId'[p][1]))
                    /\ cWorld'[p][e].me
                       => /\ e + 1 \in TiedCameras(cWorld'[p])
                          /\ cWorld'[p][e + 1].target = e
               /\ \A i \in Announced(p) :
                    (\A j \in i + 1 .. Len(ReadNow(p)) : ~IsPD(ReadNow(p)[j], ReadNow(p)[i].id))
                    => /\ ReadNow(p)[i].id \in DOMAIN cLobby'[p][1].players
                       /\ cLobby'[p][1].players[ReadNow(p)[i].id].entity \in NewEntities(p)
         /\ Cardinality(MeEntities(cWorld'[p])) <= 1
         /\ \A e \in MeEntities(cWorld'[p]) :
              /\ Client(ownId'[p][1]) \in DOMAIN cLobby'[p][1].players
              /\ cLobby'[p][1].players[Client(ownId'[p][1])].entity = e]_vars

\* both clients of a host are announced to both: each has two shells, one
\* of them its own, tagged locally controlled and with a camera
C24_OneOfTwoMine ==
    \A p \in Procs :
        /\ ~clientPanic[p] /\ clientState[p] = "Client" /\ ownId[p] = <<connId[p]>>
        /\ Cardinality(Characters(cWorld[p])) >= 2
        /\ Cardinality(MeEntities(cWorld[p])) = 1
        /\ Cardinality(TiedCameras(cWorld[p])) = 1
        /\ DOMAIN cLobby[p][1].players = {Client(connId[q]) : q \in Procs}

\* ------------------------------------------------------------------ C25
\* the locally controlled actors of the host that are its own player
HostOwned(world) == {e \in MeEntities(world) : world[e].id = HostOrSingle}

\* C25: a step of a live host in the Host role with the barrier at No and
\* the spawn-point set empty before and after spawns no character and leaves
\* the barrier at No.  A step that takes the barrier from No to Yes in the
\* Host role is taken with a non-empty set, spawns the host's locally
\* controlled actor and its camera exactly when none exists and nothing
\* otherwise, and leaves every character that existed marked for a forced
\* respawn with the spawn points of the set.  And while the host lives in the
\* Host role with the barrier at No and the set stays non-empty, the barrier
\* is eventually Yes with exactly one locally controlled actor, the host's
\* own.
C25_HostLoadProcessing ==
    /\ [][/\ (HostRunning /\ mapLoader = "No" /\ spawnPoint = {} /\ spawnPoint' = {})
             => /\ mapLoader' = "No"
                /\ Characters(hWorld') \subseteq Characters(hWorld)
          /\ (HostRunning /\ mapLoader = "No" /\ mapLoader' = "Yes")
             => /\ spawnPoint # {} /\ ~hostPanic'
                /\ IF MeEntities(hWorld) = {}
                   THEN /\ DOMAIN hWorld' \ DOMAIN hWorld = {hNextEntity, hNextEntity + 1}
                        /\ HostOwned(hWorld') = {hNextEntity}
                        /\ hWorld'[hNextEntity + 1] = TiedCamera(hNextEntity)
                   ELSE DOMAIN hWorld' = DOMAIN hWorld
                /\ Cardinality(MeEntities(hWorld')) = 1
                /\ \A e \in Characters(hWorld) :
                     /\ e \in Characters(hWorld')
                     /\ hWorld'[e].forced
                     /\ hWorld'[e].points = <<spawnPoint>>]_vars
    /\ (HostRunning /\ mapLoader = "No" /\ spawnPoint # {})
         ~> \/ /\ mapLoader = "Yes"
               /\ Cardinality(MeEntities(hWorld)) = 1
               /\ HostOwned(hWorld) = MeEntities(hWorld)
            \/ hostPanic
            \/ spawnPoint = {}

\* the level was dropped and another loaded after the host's player and the
\* player of a client were spawned: load processing ran again, spawned
\* nothing, and both characters are marked with the points of the new level
C25_LoadedAgain ==
    /\ HostRunning /\ mapLoader = "Yes"
    /\ spawnPoint = OtherLevelPoints
    /\ Cardinality(HostOwned(hWorld)) = 1
    /\ Cardinality(Characters(hWorld)) >= 2
    /\ \A e \in Characters(hWorld) :
         hWorld[e].forced /\ hWorld[e].points = <<OtherLevelPoints>>
    /\ \E e \in HostOwned(hWorld), c \in Characters(hWorld) : c < e

\* ------------------------------------------------------------------ C26
\* C26: in the Single role, once the game flow is in InGame and the
\* spawn-point set is non-empty, a locally controlled actor with a camera
\* tied to it exists eventually, unless the role is left or the set is
\* emptied first: load processing is checked again until the set is
\* non-empty.
C26_SinglePolled ==
    (lobbyState = "Single" /\ coreState = "InGame" /\ spawnPoint # {})
      ~> \/ \E e \in MeEntities(hWorld) :
              \E c \in TiedCameras(hWorld) : hWorld[c].target = e
         \/ lobbyState # "Single"
         \/ spawnPoint = {}

\* ------------------------------------------------------------------ C27
\* in this step load processing of the Single role runs
SingleLoadRuns == lobbyState = "Single" /\ coreState = "LoadLobby" /\ coreState' = "InGame"

\* C27: a run of load processing in the Single role with a non-empty
\* spawn-point set spawns a locally controlled actor of the player and a
\* camera tied to it exactly when no locally controlled actor exists, and
\* otherwise spawns nothing and leaves the existing actor marked for a forced
\* respawn with the spawn points of the set; a run with the empty set
\* changes nothing; and after every step at most one locally controlled
\* actor exists.
C27_SingleLoadProcessing ==
    [][/\ (SingleLoadRuns /\ spawnPoint # {})
          => IF MeEntities(hWorld) = {}
             THEN /\ DOMAIN hWorld' \ DOMAIN hWorld = {hNextEntity, hNextEntity + 1}
                  /\ hWorld'[hNextEntity] = Character(HostOrSingle, TRUE)
                  /\ hWorld'[hNextEntity + 1] = TiedCamera(hNextEntity)
                  /\ \A e \in DOMAIN hWorld : hWorld'[e] = hWorld[e]
             ELSE /\ DOMAIN hWorld' = DOMAIN hWorld
                  /\ \A e \in MeEntities(hWorld) :
                       hWorld'[e] = [hWorld[e] EXCEPT !.forced = TRUE,
                                                      !.points = <<spawnPoint>>]
                  /\ \A e \in DOMAIN hWorld \ MeEntities(hWorld) : hWorld'[e] = hWorld[e]
       /\ (SingleLoadRuns /\ spawnPoint = {}) => hWorld' = hWorld
       /\ lobbyState' = "Single" => Cardinality(MeEntities(hWorld')) <= 1]_vars

\* load processing ran with the player spawned by an earlier run and the
\* points of another level: one locally controlled actor, marked for a
\* forced respawn with those points
C27_RespawnRequested ==
    /\ lobbyState = "Single" /\ coreState = "InGame"
    /\ Cardinality(MeEntities(hWorld)) = 1
    /\ Cardinality(TiedCameras(hWorld)) = 1
    /\ \A e \in MeEntities(hWorld) :
         hWorld[e].forced /\ hWorld[e].points = <<OtherLevelPoints>>

\* ------------------------------------------------------------------ C28
\* C28: whenever the process is outside the Host role after a step, no
\* server and no server transport is installed; and a step of a live process
\* outside the Host role accepts no connection and is no fatal error, the
\* entry into the Host role after an earlier Host session included.
C28_TransportTeardown ==
    [][/\ lobbyState' = "None" => ~serverInstalled'
       /\ (lobbyState = "None" /\ ~hostPanic)
          => /\ connections' \subseteq connections
             /\ ~hostPanic']_vars

\* ------------------------------------------------------------------ C29
\* process p is a connected client that has read every reliable message
\* sent to it
CaughtUp(p) ==
    /\ clientState[p] = "Client" /\ ~clientPanic[p]
    /\ connId[p] \in connections /\ clientLink[connId[p]] = "up"
    /\ rcvd[connId[p]] = Len(chan[connId[p]])
\* the color and the username of every entry of a players map
Announcement(players) ==
    [pid \in DOMAIN players |->
        [color |-> players[pid].color, username |-> players[pid].username]]

\* C29: whenever a live host in the Host role has no connect or disconnect
\* event to handle and a connected client has read every reliable message
\* sent to it, the registry of the client has the identities of the players
\* map of the host, the client itself among them, each with the color and
\* the username the host registered.
C29_RegistryConvergence ==
    \A p \in Procs :
        (HostRunning /\ serverEvents = <<>> /\ CaughtUp(p))
        => /\ Client(connId[p]) \in DOMAIN lobby[1].players
           /\ Announcement(cLobby[p][1].players) = Announcement(lobby[1].players)

\* ------------------------------------------------------------------ C30
\* the entities the entries of a players map refer to
Referenced(players) == {players[pid].entity : pid \in DOMAIN players}

\* C30: in a Client session the live character shells of the client are the
\* entities its registry entries refer to: every registered identity has one
\* live shell, which is a shell of that identity and of no other entry, and
\* no live shell is left without an entry.
C30_ShellsAreRegistered ==
    \A p \in Procs :
        (clientState[p] = "Client" /\ ~clientPanic[p])
        => LET players == cLobby[p][1].players
               shells == Characters(cWorld[p])
           IN  /\ Referenced(players) = shells
               /\ \A pid \in DOMAIN players :
                     {e \in shells : cWorld[p][e].id = pid} = {players[pid].entity}

\* ------------------------------------------------------------------ C31
\* the PlayerConnected and PlayerDisconnected messages among msgs
Announcements(msgs) ==
    {j \in DOMAIN msgs : msgs[j].type \in {"PlayerConnected", "PlayerDisconnected"}}
\* the live characters of the host's own player
OfHostOrSingle(world) == {e \in Characters(world) : world[e].id = HostOrSingle}

\* C31: every PlayerConnected and PlayerDisconnected the host has sent names
\* a Client identity; the host's own player is the `me` slot of the host
\* registry and no key of its players map, whose entries do not refer to the
\* host's character; no client registry has the key HostOrSingle.
C31_HostNeverAnnounced ==
    /\ \A c \in ConnIds : \A j \in Announcements(chan[c]) :
          /\ chan[c][j].id # HostOrSingle
          /\ chan[c][j].id \in {Client(i) : i \in ConnIds}
    /\ lobby # NoRes
       => /\ HostOrSingle \notin DOMAIN lobby[1].players
          /\ \A e \in OfHostOrSingle(hWorld) :
                /\ lobby[1].me.entity = e
                /\ e \notin Referenced(lobby[1].players)
    /\ \A p \in Procs :
          cLobby[p] # NoRes => HostOrSingle \notin DOMAIN cLobby[p][1].players

\* the host's player is spawned and held in the me slot, a client is
\* registered, a connect and a disconnect were announced and a client
\* registry has an entry
C31_HostBesideClients ==
    /\ HostRunning
    /\ OfHostOrSingle(hWorld) # {}
    /\ lobby[1].me.entity \in OfHostOrSingle(hWorld)
    /\ DOMAIN lobby[1].players # {}
    /\ \E c \in ConnIds : \E j \in Announcements(chan[c]) :
          chan[c][j].type = "PlayerDisconnected"
    /\ \E p \in Procs : cLobby[p] # NoRes /\ DOMAIN cLobby[p][1].players # {}

====
